---------------------------- MODULE Spec2Model ----------------------------
(***************************************************************************)
(* A model of the record normalization pipeline of e-com-scrapper:         *)
(*   utils/normalize.py      extract_deterministic_fields, build_prompt,   *)
(*                           write_batch_jsonl, normalize_records          *)
(*   scripts/process_batch.py  process_batch_jsonl_to_csv and its helpers  *)
(*   utils/apify_client.py   download_dataset_to_file                      *)
(*   main.py                 main, _call_scraper                           *)
(*                                                                         *)
(* JSON / Python values are tagged records [t |-> tag, v |-> payload].     *)
(* A text is a sequence of one-character strings; the characters that are  *)
(* not ASCII, and the backtick, are written by name ("euro", "tick").      *)
(* A number is held in hundredths (Num(2495) is 24.95), so that prices     *)
(* read from text and numbers read from JSON compare as Python compares    *)
(* them.                                                                   *)
(***************************************************************************)
EXTENDS Integers, Sequences, FiniteSets, TLC

VARIABLES
    \* ---- extract_deterministic_fields applied to one record
    xrec,         \* the raw record handed to the extractor
    xout,         \* what it returned (NotCalled before the call)
    \* ---- _extract_json_from_content applied to one text
    ctext,        \* the text handed to it
    cres,         \* what it returned (NotCalled before the call)
    \* ---- _value_for_header applied to one mapping and one column
    hparsed,      \* the parsed mapping, as its items in iteration order
    hkey,         \* the column name
    hres,         \* what it returned (NotCalled before the call)
    \* ---- write_batch_jsonl called on all_records, once and again
    emit_runs,    \* calls made so far
    emit_written, \* what the last call returned (NotCalled before the first)
    emit_first,   \* history: the lines of the file when the first call returned
    emit_before,  \* history: the file before the first call
    \* ---- normalize_records, lines 333-379
    fi,           \* number of files the collection loop has gone through
    files,        \* history: those files, as the loop took them (kept by the
                  \* runs over SampleFiles only)
    npc,          \* position of normalize_records
    all_records,  \* the list of (deterministic, raw) pairs
    loaded,       \* history: each collected record as safe_load_json_file returned it
    jsonl,        \* the batch request file: [exists, lines]
    \* ---- the template and the output file
    header,       \* the template's first row
    write_header, \* normalize_records' flag of that name
    csv,          \* the output CSV file: [exists, lines]
    \* ---- normalize_records, lines 381-500 (the orchestrator)
    max_retries,  \* the parameter of that name
    fut,          \* per submitted record, its future and its worker's locals
    opc,          \* position of the thread that runs normalize_records
    consumed,     \* the futures as_completed has yielded
    processed,    \* the counter of that name
    write_failures, \* history: `processed` at each writerow that raised
    \* ---- process_batch_jsonl_to_csv
    blines,       \* the lines of the batch results file read so far
    bpc,          \* position of process_batch_jsonl_to_csv
    total,        \* the counter of that name (lines read)
    written,      \* the counter of that name (rows written)
    \* ---- _extract_content_from_line on its own
    lobj,         \* the decoded line it is given
    lres,         \* what it returned
    \* ---- download_dataset_to_file, then safe_load_json_file on its file
    dl_items,     \* the items the dataset holds
    dl_file,      \* the text of the file written
    dl_loaded,    \* what safe_load_json_file returned for that file
    \* ---- build_prompt on its own, as text
    bp_det,       \* its argument record_det
    bp_raw,       \* its argument raw_record
    bp_out,       \* the prompt it returned
    \* ---- main, main.py lines 97-107
    m_arg,        \* the --actor argument, as its pieces between commas
    m_actors,     \* the list `actors` of line 100
    m_i,          \* the place of the loop of line 102 in that list
    m_pc,         \* position of main
    m_log         \* history: the actors attempted and what came of each

nvars == <<fi, files, npc, all_records, loaded, jsonl>>
cvars == <<ctext, cres>>
hvars == <<hparsed, hkey, hres>>
evars == <<emit_runs, emit_written, emit_first, emit_before>>
lvars == <<lobj, lres>>
\* the functions that are run on their own, apart from the first four
dvars == <<dl_items, dl_file, dl_loaded>>
pvars == <<bp_det, bp_raw, bp_out>>
mvars == <<m_arg, m_actors, m_i, m_pc, m_log>>
fvars == <<lvars, dvars, pvars, mvars>>
xvars == <<xrec, xout, cvars, hvars, evars, fvars>>
svars == <<header, write_header, csv>>
ovars == <<max_retries, fut, opc, consumed, processed, write_failures>>
bvars == <<blines, bpc, total, written>>
vars  == <<xvars, nvars, svars, ovars, bvars>>

-----------------------------------------------------------------------------
(* Values *)

Null      == [t |-> "null"]
Num(h)    == [t |-> "num", v |-> h]
Str(s)    == [t |-> "str", v |-> s]
Bool(b)   == [t |-> "bool", v |-> b]
List(q)   == [t |-> "list", v |-> q]
Dict(f)   == [t |-> "dict", v |-> f]

EmptyMap  == [k \in {} |-> Null]

\* the one element of a set of one.  An intermediate result that is used
\* more than once is bound as the element of such a set, so that it is
\* computed once.
The(S) == CHOOSE x \in S : TRUE

\* Python truthiness, as `a or b` and `if x:` use it.
Truthy(x) ==
    CASE x.t = "null" -> FALSE
      [] x.t = "num"  -> x.v # 0
      [] x.t = "bool" -> x.v
      [] x.t = "str"  -> Len(x.v) > 0
      [] x.t = "list" -> Len(x.v) > 0
      [] x.t = "dict" -> DOMAIN x.v # {}

\* a or b
Or(a, b) == IF Truthy(a) THEN a ELSE b

\* dict.get(k): the value, None when the key is absent
Get(m, k) == IF k \in DOMAIN m THEN m[k] ELSE Null

\* m with m[k] = x set (dict item assignment)
Put(m, k, x) == [j \in DOMAIN m \cup {k} |-> IF j = k THEN x ELSE m[j]]

\* m without key k (del m[k])
Del(m, k) == [j \in DOMAIN m \ {k} |-> m[j]]

-----------------------------------------------------------------------------
(* Texts *)

Digits  == {"0", "1", "2", "3", "4", "5", "6", "7", "8", "9"}
UpperSeq == <<"A", "B", "C", "D", "E", "F", "G", "H", "I", "J", "K", "L", "M",
             "N", "O", "P", "Q", "R", "S", "T", "U", "V", "W", "X", "Y", "Z">>
LowerSeq == <<"a", "b", "c", "d", "e", "f", "g", "h", "i", "j", "k", "l", "m",
             "n", "o", "p", "q", "r", "s", "t", "u", "v", "w", "x", "y", "z">>
Upper   == {UpperSeq[i] : i \in 1..26}
Lower   == {LowerSeq[i] : i \in 1..26}
Letters == Upper \cup Lower
WordChars == Letters \cup Digits \cup {"_"}
Blank   == {" ", "\n", "\t"}

DigitVal(c) ==
    CASE c = "0" -> 0 [] c = "1" -> 1 [] c = "2" -> 2 [] c = "3" -> 3
      [] c = "4" -> 4 [] c = "5" -> 5 [] c = "6" -> 6 [] c = "7" -> 7
      [] c = "8" -> 8 [] c = "9" -> 9

\* least index i >= from with s[i] \in set, Len(s) + 1 when there is none
FirstIn(s, from, set) ==
    IF from > Len(s) THEN Len(s) + 1
    ELSE CHOOSE i \in from..(Len(s) + 1) :
            /\ i = Len(s) + 1 \/ s[i] \in set
            /\ \A j \in from..(i - 1) : s[j] \notin set

\* least index i >= from with s[i] \notin set, Len(s) + 1 when there is none
FirstNotIn(s, from, set) ==
    IF from > Len(s) THEN Len(s) + 1
    ELSE CHOOSE i \in from..(Len(s) + 1) :
            /\ i = Len(s) + 1 \/ s[i] \notin set
            /\ \A j \in from..(i - 1) : s[j] \in set

\* str.replace(c, ""): s without the character c
RECURSIVE Without(_, _)
Without(s, c) ==
    IF s = <<>> THEN <<>>
    ELSE IF Head(s) = c THEN Without(Tail(s), c)
    ELSE <<Head(s)>> \o Without(Tail(s), c)

\* str.strip() leaves nothing
IsBlank(s) == \A i \in 1..Len(s) : s[i] \in Blank

\* the decimal value of a run of digits
RECURSIVE DecVal(_)
DecVal(ds) ==
    IF ds = <<>> THEN 0 ELSE 10 * DecVal(SubSeq(ds, 1, Len(ds) - 1)) + DigitVal(ds[Len(ds)])

\* a fraction's digits in hundredths (the texts of the model carry at most
\* two fractional digits)
FracHundredths(ds) ==
    IF Len(ds) = 0 THEN 0
    ELSE IF Len(ds) = 1 THEN 10 * DigitVal(ds[1])
    ELSE 10 * DigitVal(ds[1]) + DigitVal(ds[2])


\* The keys and column names of the source, spelled out as texts
K(name) ==
    CASE name = "url" -> <<"u", "r", "l">>
      [] name = "link" -> <<"l", "i", "n", "k">>
      [] name = "product_url" -> <<"p", "r", "o", "d", "u", "c", "t", "_", "u", "r", "l">>
      [] name = "itemUrl" -> <<"i", "t", "e", "m", "U", "r", "l">>
      [] name = "source" -> <<"s", "o", "u", "r", "c", "e">>
      [] name = "site" -> <<"s", "i", "t", "e">>
      [] name = "title" -> <<"t", "i", "t", "l", "e">>
      [] name = "name" -> <<"n", "a", "m", "e">>
      [] name = "price" -> <<"p", "r", "i", "c", "e">>
      [] name = "priceWithCurrency" -> <<"p", "r", "i", "c", "e", "W", "i", "t", "h", "C", "u", "r", "r", "e", "n", "c", "y">>
      [] name = "price_with_currency" -> <<"p", "r", "i", "c", "e", "_", "w", "i", "t", "h", "_", "c", "u", "r", "r", "e", "n", "c", "y">>
      [] name = "currency" -> <<"c", "u", "r", "r", "e", "n", "c", "y">>
      [] name = "priceCurrency" -> <<"p", "r", "i", "c", "e", "C", "u", "r", "r", "e", "n", "c", "y">>
      [] name = "images" -> <<"i", "m", "a", "g", "e", "s">>
      [] name = "image" -> <<"i", "m", "a", "g", "e">>
      [] name = "image_urls" -> <<"i", "m", "a", "g", "e", "_", "u", "r", "l", "s">>
      [] name = "photos" -> <<"p", "h", "o", "t", "o", "s">>
      [] name = "upc" -> <<"u", "p", "c">>
      [] name = "ean" -> <<"e", "a", "n">>
      [] name = "mpn" -> <<"m", "p", "n">>
      [] name = "seller" -> <<"s", "e", "l", "l", "e", "r">>
      [] name = "sellerName" -> <<"s", "e", "l", "l", "e", "r", "N", "a", "m", "e">>
      [] name = "seller_name" -> <<"s", "e", "l", "l", "e", "r", "_", "n", "a", "m", "e">>
      [] name = "itemLocation" -> <<"i", "t", "e", "m", "L", "o", "c", "a", "t", "i", "o", "n">>
      [] name = "location" -> <<"l", "o", "c", "a", "t", "i", "o", "n">>
      [] name = "categories" -> <<"c", "a", "t", "e", "g", "o", "r", "i", "e", "s">>
      [] name = "category" -> <<"c", "a", "t", "e", "g", "o", "r", "y">>
      [] name = "rating" -> <<"r", "a", "t", "i", "n", "g">>
      [] name = "averageRating" -> <<"a", "v", "e", "r", "a", "g", "e", "R", "a", "t", "i", "n", "g">>
      [] name = "review_count" -> <<"r", "e", "v", "i", "e", "w", "_", "c", "o", "u", "n", "t">>
      [] name = "reviews" -> <<"r", "e", "v", "i", "e", "w", "s">>
      [] name = "description" -> <<"d", "e", "s", "c", "r", "i", "p", "t", "i", "o", "n">>
      [] name = "subTitle" -> <<"s", "u", "b", "T", "i", "t", "l", "e">>
      [] name = "details" -> <<"d", "e", "t", "a", "i", "l", "s">>
      [] name = "product ID" -> <<"p", "r", "o", "d", "u", "c", "t", " ", "I", "D">>
      [] name = "response" -> <<"r", "e", "s", "p", "o", "n", "s", "e">>
      [] name = "body" -> <<"b", "o", "d", "y">>
      [] name = "choices" -> <<"c", "h", "o", "i", "c", "e", "s">>
      [] name = "message" -> <<"m", "e", "s", "s", "a", "g", "e">>
      [] name = "content" -> <<"c", "o", "n", "t", "e", "n", "t">>
      [] name = "text" -> <<"t", "e", "x", "t">>
      [] name = "custom_id" -> <<"c", "u", "s", "t", "o", "m", "_", "i", "d">>
      [] name = "request_id" -> <<"r", "e", "q", "u", "e", "s", "t", "_", "i", "d">>

-----------------------------------------------------------------------------
(* urlparse(str(url)).netloc, normalize.py line 106 *)

SchemeChars == Letters \cup Digits \cup {"+", "-", "."}

\* urllib.parse.urlsplit on a text: the scheme is cut off at the first ':'
\* when what precedes it is a scheme; a rest that starts with "//" carries
\* the netloc up to the first of '/', '?', '#'; a netloc with one bracket
\* and not the other raises ValueError.
UrlSplit(u) ==
    LET i      == FirstIn(u, 1, {":"})
        scheme == /\ 1 < i /\ i <= Len(u)
                  /\ u[1] \in Letters
                  /\ \A j \in 1..(i - 1) : u[j] \in SchemeChars
        rest   == IF scheme THEN SubSeq(u, i + 1, Len(u)) ELSE u
    IN  IF Len(rest) >= 2 /\ rest[1] = "/" /\ rest[2] = "/"
        THEN LET delim  == FirstIn(rest, 3, {"/", "?", "#"})
                 netloc == SubSeq(rest, 3, delim - 1)
                 open   == \E j \in 1..Len(netloc) : netloc[j] = "["
                 close  == \E j \in 1..Len(netloc) : netloc[j] = "]"
             IN  [raised |-> open # close, netloc |-> netloc]
        ELSE [raised |-> FALSE, netloc |-> <<>>]

\* out["source"] for a truthy url: str() of a value that is not text starts
\* with a digit, a bracket, a brace or a capital and holds no "//" at its
\* start, so its netloc is empty.
SourceOfUrl(url) ==
    IF url.t = "str"
    THEN LET r == UrlSplit(url.v)
         IN  IF r.raised THEN Null ELSE Str(r.netloc)
    ELSE Str(<<>>)

-----------------------------------------------------------------------------
(* Price and currency, normalize.py lines 115-155 *)

\* re.search(r"[-+]?[0-9]{1,3}(?:[0-9,]*)(?:\.[0-9]+)?", s): the leftmost
\* place where a digit, or a sign and a digit, stands; 0 when there is none.
RECURSIVE NumMatchStart(_, _)
NumMatchStart(s, i) ==
    IF i > Len(s) THEN 0
    ELSE IF s[i] \in Digits THEN i
    ELSE IF s[i] \in {"+", "-"} /\ i < Len(s) /\ s[i + 1] \in Digits THEN i
    ELSE NumMatchStart(s, i + 1)

\* float(num_match.group(0)) in hundredths, for a match starting at i
NumMatchValue(s, i) ==
    LET neg     == s[i] = "-"
        d       == IF s[i] \in Digits THEN i ELSE i + 1
        e       == FirstNotIn(s, d, Digits \cup {","})
        hasFrac == e < Len(s) /\ s[e] = "." /\ s[e + 1] \in Digits
        fe      == IF hasFrac THEN FirstNotIn(s, e + 1, Digits) ELSE e
        whole   == DecVal(Without(SubSeq(s, d, e - 1), ","))
        frac    == IF hasFrac THEN FracHundredths(SubSeq(s, e + 1, fe - 1)) ELSE 0
        mag     == 100 * whole + frac
    IN  IF neg THEN 0 - mag ELSE mag

\* re.search(r"\b([A-Z]{3})\b", s): the leftmost three capitals that stand
\* alone; 0 when there are none.
RECURSIVE IsoMatchStart(_, _)
IsoMatchStart(s, i) ==
    IF i + 2 > Len(s) THEN 0
    ELSE IF /\ s[i] \in Upper /\ s[i + 1] \in Upper /\ s[i + 2] \in Upper
            /\ (i = 1 \/ s[i - 1] \notin WordChars)
            /\ (i + 2 = Len(s) \/ s[i + 3] \notin WordChars)
         THEN i
    ELSE IsoMatchStart(s, i + 1)

CurrencySymbols == {"$", "euro", "pound", "yen"}

\* symbol_map.get(sym)
symbol_map(sym) ==
    CASE sym = "$"     -> Str(<<"U", "S", "D">>)
      [] sym = "euro"  -> Str(<<"E", "U", "R">>)
      [] sym = "pound" -> Str(<<"G", "B", "P">>)
      [] sym = "yen"   -> Str(<<"J", "P", "Y">>)

\* a float() that converts nothing
Float_Raises(x) == [raised |-> TRUE, val |-> Null]

\* float(x): the number, or raised
FloatOfText(s) ==
    LET a  == FirstNotIn(s, 1, Blank)
        m  == NumMatchStart(s, 1)
        d  == IF m > 0 /\ s[m] \in Digits THEN m ELSE m + 1
        e  == FirstNotIn(s, d, Digits)
        hf == e < Len(s) /\ s[e] = "." /\ s[e + 1] \in Digits
        fe == IF hf THEN FirstNotIn(s, e + 1, Digits) ELSE e
    IN  IF m > 0 /\ m = a /\ IsBlank(SubSeq(s, fe, Len(s)))
        THEN [raised |-> FALSE, val |-> Num(NumMatchValue(s, m))]
        ELSE [raised |-> TRUE, val |-> Null]

Float(x) ==
    CASE x.t = "num"  -> [raised |-> FALSE, val |-> x]
      [] x.t = "bool" -> [raised |-> FALSE, val |-> Num(IF x.v THEN 100 ELSE 0)]
      [] x.t = "str"  -> FloatOfText(x.v)
      [] OTHER        -> [raised |-> TRUE, val |-> Null]

\* x or None
OrNone(x) == IF Truthy(x) THEN x ELSE Null

\* Lines 116-155: [has |-> whether out["price"] was assigned, price, currency]
PriceOf(record) ==
    LET price == Get(record, K("price"))
        pwc   == Or(Or(Get(record, K("priceWithCurrency")),
                       Get(record, K("price_with_currency"))), Str(<<>>))
    IN  IF price = Null
        THEN IF pwc.t = "str" /\ ~IsBlank(pwc.v)
             THEN LET s   == Without(pwc.v, ",")
                      m   == NumMatchStart(s, 1)
                      iso == IsoMatchStart(pwc.v, 1)
                      sy  == FirstIn(pwc.v, 1, CurrencySymbols)
                      cur == IF iso > 0 THEN Str(SubSeq(pwc.v, iso, iso + 2))
                             ELSE IF sy <= Len(pwc.v) THEN symbol_map(pwc.v[sy])
                             ELSE Null
                  IN  [has      |-> m > 0,
                       price    |-> IF m > 0 THEN Num(NumMatchValue(s, m)) ELSE Null,
                       currency |-> OrNone(cur)]
             ELSE [has |-> FALSE, price |-> Null, currency |-> Null]
        ELSE LET f == Float(price)
             IN  [has      |-> TRUE,
                  price    |-> IF f.raised THEN Null ELSE f.val,
                  currency |-> OrNone(Or(Get(record, K("currency")),
                                         Get(record, K("priceCurrency"))))]

-----------------------------------------------------------------------------
(* extract_deterministic_fields, normalize.py lines 85-198 *)

DetNames ==
    {"url", "source", "title", "price", "currency", "image_urls", "upc", "mpn",
     "seller_name", "itemLocation", "category", "rating", "review_count",
     "description"}

DetKeys == {K(n) : n \in DetNames}

ImageUrls(record) ==
    LET imgs == Or(Or(Or(Get(record, K("images")), Get(record, K("image"))),
                      Get(record, K("image_urls"))), Get(record, K("photos")))
    IN  IF imgs.t = "list" THEN imgs
        ELSE IF imgs.t = "str" THEN List(<<imgs>>)
        ELSE List(<<>>)

Category(record) ==
    LET cats == OrNone(Or(Get(record, K("categories")), Get(record, K("category"))))
    IN  IF cats.t = "list" THEN (IF Truthy(cats) THEN cats.v[1] ELSE Null)
        ELSE cats

extract_deterministic_fields(record) ==
    LET url == Or(Or(Or(Get(record, K("url")), Get(record, K("link"))),
                     Get(record, K("product_url"))), Get(record, K("itemUrl")))
        p   == PriceOf(record)
        out == [k \in DetKeys \ {K("price")} |->
                 CASE k = K("url")          -> url
                   [] k = K("source")       ->
                        IF Truthy(url) THEN SourceOfUrl(url)
                        ELSE OrNone(Or(Get(record, K("source")), Get(record, K("site"))))
                   [] k = K("title")        ->
                        OrNone(Or(Get(record, K("title")), Get(record, K("name"))))
                   [] k = K("currency")     -> p.currency
                   [] k = K("image_urls")   -> ImageUrls(record)
                   [] k = K("upc")          ->
                        OrNone(Or(Get(record, K("upc")), Get(record, K("ean"))))
                   [] k = K("mpn")          -> OrNone(Get(record, K("mpn")))
                   [] k = K("seller_name")  ->
                        OrNone(Or(Get(record, K("seller")), Get(record, K("sellerName"))))
                   [] k = K("itemLocation") ->
                        OrNone(Or(Get(record, K("itemLocation")), Get(record, K("location"))))
                   [] k = K("category")     -> Category(record)
                   [] k = K("rating")       ->
                        OrNone(Or(Get(record, K("rating")), Get(record, K("averageRating"))))
                   [] k = K("review_count") ->
                        OrNone(Or(Get(record, K("review_count")), Get(record, K("reviews"))))
                   [] k = K("description")  ->
                        OrNone(Or(Or(Get(record, K("description")), Get(record, K("subTitle"))),
                                  Get(record, K("details"))))]
    IN  IF p.has THEN Put(out, K("price"), p.price) ELSE out


-----------------------------------------------------------------------------
(* Text operations of str *)

\* the character at i, "EOF" past either end
At(s, i) == IF 1 <= i /\ i <= Len(s) THEN s[i] ELSE "EOF"

\* the greatest index i <= from with s[i] \notin set, 0 when there is none
LastNotIn(s, from, set) ==
    IF from < 1 THEN 0
    ELSE CHOOSE i \in 0..from :
            /\ i = 0 \/ s[i] \notin set
            /\ \A j \in (i + 1)..from : s[j] \in set

\* the greatest index i <= from with s[i] \in set, 0 when there is none
LastIn(s, from, set) ==
    IF from < 1 THEN 0
    ELSE CHOOSE i \in 0..from :
            /\ i = 0 \/ s[i] \in set
            /\ \A j \in (i + 1)..from : s[j] \notin set

\* s[a-1 : b], cut to the text
Slice(s, a, b) ==
    SubSeq(s, IF a < 1 THEN 1 ELSE a, IF b > Len(s) THEN Len(s) ELSE b)

\* str.strip()
Strip(s) == SubSeq(s, FirstNotIn(s, 1, Blank), LastNotIn(s, Len(s), Blank))

\* str.startswith / str.endswith
StartsWith(s, p) == Len(s) >= Len(p) /\ SubSeq(s, 1, Len(p)) = p
EndsWith(s, p)   == Len(s) >= Len(p) /\ SubSeq(s, Len(s) - Len(p) + 1, Len(s)) = p

\* str.splitlines()
RECURSIVE SplitLines(_)
SplitLines(s) ==
    IF s = <<>> THEN <<>>
    ELSE LET i == FirstIn(s, 1, {"\n"})
         IN  IF i > Len(s) THEN <<s>>
             ELSE <<SubSeq(s, 1, i - 1)>> \o SplitLines(SubSeq(s, i + 1, Len(s)))

\* "\n".join(parts)
RECURSIVE JoinLines(_)
JoinLines(parts) ==
    IF parts = <<>> THEN <<>>
    ELSE IF Len(parts) = 1 THEN parts[1]
    ELSE parts[1] \o <<"\n">> \o JoinLines(Tail(parts))

\* three backticks (the backtick is written by name)
Fence == <<"tick", "tick", "tick">>

-----------------------------------------------------------------------------
(* json.loads on a text *)

Quote     == "\""
Backslash == "\\"
JsonWs    == {" ", "\n", "\t", "\r"}

Fail == [ok |-> FALSE, val |-> Null, next |-> 0]
Ok(x, n) == [ok |-> TRUE, val |-> x, next |-> n]

SkipWs(s, i) == FirstNotIn(s, i, JsonWs)

\* s[q] follows an odd run of backslashes: it is the second character of
\* an escape
Escaped(s, q) == (q - 1 - LastNotIn(s, q - 1, {Backslash})) % 2 = 1

\* the k-th least element of a set of numbers
Kth(U, k) == CHOOSE q \in U : Cardinality({r \in U : r < q}) = k - 1

\* the character a unit of a string literal stands for: itself, or what the
\* escape at q stands for
Unit(s, q) ==
    IF s[q] # Backslash THEN s[q]
    ELSE IF s[q + 1] = "n" THEN "\n" ELSE s[q + 1]

\* the literal s[j..p-1] is well formed: no control character, and every
\* escape is one of \" \\ \/ \n
WellFormed(s, j, p) ==
    \A q \in j..(p - 1) :
        /\ s[q] \notin {"\n", "\t", "\r"}
        /\ (s[q] = Backslash /\ ~Escaped(s, q)) =>
               s[q + 1] \in {Quote, Backslash, "/", "n"}

\* the text of the units U of a literal
Decode(s, U) == [k \in 1..Cardinality(U) |-> Unit(s, Kth(U, k))]

\* the string literal whose opening quote precedes j: its text and the
\* index after its closing quote p, the first quote that is not escaped
Literal(s, j, p) ==
    IF p > Len(s) \/ ~WellFormed(s, j, p) THEN Fail
    ELSE The({Ok(Decode(s, U), p + 1) :
                 U \in {{q \in j..(p - 1) : ~Escaped(s, q)}}})

StrScan(s, j) ==
    The({Literal(s, j, p) :
            p \in {IF \E q \in j..Len(s) : s[q] = Quote /\ ~Escaped(s, q)
                   THEN CHOOSE q \in j..Len(s) :
                           /\ s[q] = Quote /\ ~Escaped(s, q)
                           /\ \A r \in j..(q - 1) : ~(s[r] = Quote /\ ~Escaped(s, r))
                   ELSE Len(s) + 1}})

\* -?(0|[1-9][0-9]*)(\.[0-9]+)? starting at i
ParseNumber(s, i) ==
    LET neg  == At(s, i) = "-"
        d    == IF neg THEN i + 1 ELSE i
        e    == IF At(s, d) = "0" THEN d + 1 ELSE FirstNotIn(s, d, Digits)
        hf   == At(s, e) = "." /\ At(s, e + 1) \in Digits
        fe   == IF hf THEN FirstNotIn(s, e + 1, Digits) ELSE e
        mag  == 100 * DecVal(SubSeq(s, d, e - 1))
                + (IF hf THEN FracHundredths(SubSeq(s, e + 1, fe - 1)) ELSE 0)
    IN  IF At(s, d) \notin Digits THEN Fail
        ELSE Ok(Num(IF neg THEN 0 - mag ELSE mag), fe)

RECURSIVE ParseValue(_, _), ParseMembers(_, _, _), ParseElements(_, _, _)

ParseValue(s, i) ==
    LET c == At(s, i)
    IN  CASE c = Quote ->
               The({IF r.ok THEN Ok(Str(r.val), r.next) ELSE Fail :
                       r \in {StrScan(s, i + 1)}})
          [] c = "{" ->
               The({IF At(s, j) = "}" THEN Ok(Dict(EmptyMap), j + 1)
                    ELSE ParseMembers(s, j, EmptyMap) :
                       j \in {SkipWs(s, i + 1)}})
          [] c = "[" ->
               The({IF At(s, j) = "]" THEN Ok(List(<<>>), j + 1)
                    ELSE ParseElements(s, j, <<>>) :
                       j \in {SkipWs(s, i + 1)}})
          [] c = "-" \/ c \in Digits -> ParseNumber(s, i)
          [] c = "t" ->
               IF Slice(s, i, i + 3) = <<"t", "r", "u", "e">>
               THEN Ok(Bool(TRUE), i + 4) ELSE Fail
          [] c = "f" ->
               IF Slice(s, i, i + 4) = <<"f", "a", "l", "s", "e">>
               THEN Ok(Bool(FALSE), i + 5) ELSE Fail
          [] c = "n" ->
               IF Slice(s, i, i + 3) = <<"n", "u", "l", "l">>
               THEN Ok(Null, i + 4) ELSE Fail
          [] OTHER -> Fail

\* what follows a member or an element that ends before e: the next one
\* after a comma, the end at the closing character
AfterMember(s, e, acc2) ==
    IF At(s, e) = "," THEN ParseMembers(s, SkipWs(s, e + 1), acc2)
    ELSE IF At(s, e) = "}" THEN Ok(Dict(acc2), e + 1)
    ELSE Fail

AfterElement(s, e, acc2) ==
    IF At(s, e) = "," THEN ParseElements(s, SkipWs(s, e + 1), acc2)
    ELSE IF At(s, e) = "]" THEN Ok(List(acc2), e + 1)
    ELSE Fail

\* the members of an object from the key at j on; a later duplicate key wins
ParseMembers(s, j, acc) ==
    IF At(s, j) # Quote THEN Fail
    ELSE The({
           IF ~k.ok \/ At(s, SkipWs(s, k.next)) # ":" THEN Fail
           ELSE The({
                  IF ~v.ok THEN Fail
                  ELSE The({AfterMember(s, e, acc2) :
                              e \in {SkipWs(s, v.next)},
                              acc2 \in {Put(acc, k.val, v.val)}}) :
                     v \in {ParseValue(s, SkipWs(s, SkipWs(s, k.next) + 1))}}) :
              k \in {StrScan(s, j + 1)}})

\* the elements of an array from the value at j on
ParseElements(s, j, acc) ==
    The({IF ~v.ok THEN Fail
         ELSE The({AfterElement(s, e, acc2) :
                     e \in {SkipWs(s, v.next)},
                     acc2 \in {Append(acc, v.val)}}) :
            v \in {ParseValue(s, j)}})

\* the value, when nothing but blanks follows it
Whole(s, r) ==
    IF r.ok /\ SkipWs(s, r.next) > Len(s)
    THEN [ok |-> TRUE, val |-> r.val]
    ELSE [ok |-> FALSE, val |-> Null]

JsonLoads(s) == The({Whole(t, ParseValue(t, SkipWs(t, 1))) : t \in {s}})

-----------------------------------------------------------------------------
(* Recovering a mapping from a response text *)

\* the candidate were the braces not looked for
BraceCandidate_WholeText(txt) == txt

\* txt[first : last + 1] when a '{' is followed, somewhere, by a '}';
\* the whole text otherwise
BraceCandidate(txt) ==
    LET first == FirstIn(txt, 1, {"{"})
        last  == LastIn(txt, Len(txt), {"}"})
    IN  IF first <= Len(txt) /\ last >= 1 /\ last > first
        THEN SubSeq(txt, first, last)
        ELSE txt

\* parts[1:-1]
Inner(parts) == SubSeq(parts, 2, Len(parts) - 1)

\* Lines 401-404 of normalize.py, lines 98-100 of process_batch.py: the
\* parsed value when it is a mapping
MappingOrNone(r) == IF r.ok /\ r.val.t = "dict" THEN r.val ELSE Null

\* Lines 387-394 of normalize.py: the text without its fence
Unfence(txt0) ==
    IF StartsWith(txt0, Fence) THEN JoinLines(Inner(SplitLines(txt0))) ELSE txt0

\* parse_and_map_output, normalize.py lines 382-408: a Dict, or Null
parse_and_map_output(model_text) ==
    IF model_text = <<>> THEN Null
    ELSE MappingOrNone(JsonLoads(BraceCandidate(Unfence(Strip(model_text)))))

\* candidate.replace('\\"', '"')
RECURSIVE UnescapeQuotes(_)
UnescapeQuotes(s) ==
    IF s = <<>> THEN <<>>
    ELSE IF Len(s) >= 2 /\ s[1] = Backslash /\ s[2] = Quote
         THEN <<Quote>> \o UnescapeQuotes(SubSeq(s, 3, Len(s)))
    ELSE <<Head(s)>> \o UnescapeQuotes(Tail(s))

\* Lines 85-89 of process_batch.py: the text without its fences
UnfenceBoth(txt0) ==
    IF StartsWith(txt0, Fence) /\ EndsWith(txt0, Fence) /\ Len(SplitLines(txt0)) >= 3
    THEN Strip(JoinLines(Inner(SplitLines(txt0))))
    ELSE txt0

\* Lines 98-105: a mapping, the first element of a list when that is a
\* mapping, None otherwise
MappingOrFirst(val) ==
    IF val.t = "dict" THEN val
    ELSE IF val.t = "list" /\ Truthy(val) /\ val.v[1].t = "dict" THEN val.v[1]
    ELSE Null

\* Lines 97-118, for the candidate and what json.loads made of it
FromCandidate(candidate, r) ==
    IF r.ok THEN MappingOrFirst(r.val)
    ELSE MappingOrNone(JsonLoads(UnescapeQuotes(candidate)))

\* Lines 90-118
ParseCandidate(candidate) == FromCandidate(candidate, JsonLoads(candidate))

\* _extract_json_from_content on a text, process_batch.py lines 77-118:
\* a Dict, or Null
ExtractJsonFromText(content) ==
    IF content = <<>> THEN Null
    ELSE ParseCandidate(BraceCandidate(UnfenceBoth(Strip(content))))

-----------------------------------------------------------------------------
(* Sample texts and records *)

MaxFiles == 2     \* files under input_dir
MaxItems == 2     \* items of one file

TxUrl     == <<"h", ":", "/", "/", "a", ".", "c", "/", "p">>
TxBadUrl  == <<"h", ":", "/", "/", "[", "a", "/", "p">>
TxTitle   == <<"t", "e", "a">>
TxUsPrice == <<"U", "S", " ", "$", "2", "4", ".", "9", "5", "/", "e", "a">>
TxEuPrice == <<"euro", "1", "2", ".", "0", "0">>
TxFree    == <<"f", "r", "e", "e">>
TxGBP     == <<"G", "B", "P">>
TxDecimal == <<"1", "2", ".", "5">>
TxEUR     == <<"E", "U", "R">>
TxComma   == <<"1", ",", "2", "9", "9", ".", "5", "0", " ", "G", "B", "P">>
TxBoth    == <<"$", "5", " ", "C", "A", "D">>

\* a record with a url and a price field
RecA == (K("url") :> Str(TxUrl)) @@ (K("title") :> Str(TxTitle))
            @@ (K("price") :> Num(500))
\* a record with a combined price string and a reviews field
RecB == (K("priceWithCurrency") :> Str(TxUsPrice)) @@ (K("reviews") :> Num(1200))

\* what a file's JSON array, object or line may hold
ItemPool == {Dict(RecA), Dict(RecB), Num(700)}

NotCalled == [t |-> "notcalled"]

\* every record over the keys ks with values drawn from vals[k]
RECURSIVE RecordsOver(_, _)
RecordsOver(ks, vals) ==
    IF ks = <<>> THEN {EmptyMap}
    ELSE LET rest == RecordsOver(Tail(ks), vals)
             k    == Head(ks)
         IN  rest \cup {Put(r, k, x) : r \in rest, x \in vals[k]}

XKeys == <<K("url"), K("price"), K("priceWithCurrency"), K("currency"),
          K("priceCurrency"), K("reviews"), K("images")>>

XValues ==
    [k \in {XKeys[i] : i \in 1..Len(XKeys)} |->
       CASE k = K("url")               -> {Str(TxUrl), Str(TxBadUrl), Num(500)}
         [] k = K("price")             -> {Null, Num(500), Str(TxFree), Str(TxDecimal),
                                           List(<<>>)}
         [] k = K("priceWithCurrency") -> {Str(TxUsPrice), Str(TxEuPrice), Str(TxFree),
                                           Str(TxComma), Str(TxBoth), Num(300)}
         [] k = K("currency")          -> {Str(TxGBP), Str(<<>>)}
         [] k = K("priceCurrency")     -> {Str(TxEUR)}
         [] k = K("reviews")           -> {Num(1200)}
         [] k = K("images")            -> {Str(TxUrl), List(<<Str(TxUrl)>>)}]

XRecords == RecordsOver(XKeys, XValues)

-----------------------------------------------------------------------------
(* The template header and the output file *)

HeaderA == <<K("product ID"), K("name"), K("price"), K("url")>>
HeaderB == <<K("name"), K("price")>>
Headers == {HeaderA, HeaderB}

Cols(h) == {h[i] : i \in 1..Len(h)}

\* csv.DictWriter.writeheader(): the row that maps each column to its name
\* (by: the thread that wrote the line; src: the record it was written for)
HeaderLine(h, who) ==
    [kind |-> "header", cells |-> [c \in Cols(h) |-> Str(c)], by |-> who, src |-> 0]

RowLine(cells, who, i) == [kind |-> "row", cells |-> cells, by |-> who, src |-> i]

\* a row an earlier run left in the file
OldRow(h) == RowLine([c \in Cols(h) |-> Str(<<"x">>)], "earlier", 0)

AbsentFile == [exists |-> FALSE, lines |-> <<>>]

\* The output file before a run: absent, or left by an earlier run
InitialCsv(h) ==
    {AbsentFile,
     [exists |-> TRUE, lines |-> <<HeaderLine(h, "earlier"), OldRow(h)>>]}

-----------------------------------------------------------------------------
(* The extractor applied to one record *)

SinkIdle == /\ header = <<>>
            /\ write_header = FALSE
            /\ csv = [exists |-> FALSE, lines |-> <<>>]

NormalizeIdle == /\ fi = 0
                 /\ files = <<>>
                 /\ npc = "idle"
                 /\ all_records = <<>>
                 /\ loaded = <<>>
                 /\ jsonl = [exists |-> FALSE, lines |-> <<>>]

ContentIdle == ctext = <<>> /\ cres = NotCalled

LookupIdle == hparsed = <<>> /\ hkey = <<>> /\ hres = NotCalled

EmitIdle == /\ emit_runs = 0
            /\ emit_written = NotCalled
            /\ emit_first = <<>>
            /\ emit_before = [exists |-> FALSE, lines |-> <<>>]

LineIdle == lobj = Null /\ lres = NotCalled

DownloadIdle == dl_items = <<>> /\ dl_file = NotCalled /\ dl_loaded = NotCalled

PromptIdle == bp_det = EmptyMap /\ bp_raw = EmptyMap /\ bp_out = NotCalled

MainIdle == /\ m_arg = <<>>
            /\ m_actors = <<>>
            /\ m_i = 0
            /\ m_pc = "idle"
            /\ m_log = <<>>

FunctionsIdle == LineIdle /\ DownloadIdle /\ PromptIdle /\ MainIdle

ExtractIdle == /\ xrec = EmptyMap /\ xout = NotCalled
               /\ ContentIdle /\ LookupIdle /\ EmitIdle /\ FunctionsIdle

OrchIdle == /\ max_retries = 0
            /\ fut = <<>>
            /\ opc = "idle"
            /\ consumed = {}
            /\ processed = 0
            /\ write_failures = <<>>

BatchIdle == /\ blines = <<>>
             /\ bpc = "idle"
             /\ total = 0
             /\ written = 0

InitExtract ==
    /\ xrec \in XRecords
    /\ xout = NotCalled
    /\ FunctionsIdle
    /\ ContentIdle
    /\ LookupIdle
    /\ EmitIdle
    /\ NormalizeIdle
    /\ SinkIdle
    /\ OrchIdle
    /\ BatchIdle

Extract ==
    /\ xout = NotCalled
    /\ npc = "idle"
    /\ xout' = Dict(extract_deterministic_fields(xrec))
    /\ UNCHANGED <<xrec, cvars, hvars, evars, fvars, nvars, svars, ovars, bvars>>

NextExtract == Extract

SpecExtract == InitExtract /\ [][NextExtract]_vars

-----------------------------------------------------------------------------
(* Loading, normalize.py lines 57-82 and 361-371 *)

\* The lines of a newline-delimited file: a line that parses, or one that
\* does not.
BadLine == [t |-> "badline"]

RECURSIVE SeqsUpTo(_, _)
SeqsUpTo(S, n) ==
    IF n = 0 THEN {<<>>}
    ELSE LET shorter == SeqsUpTo(S, n - 1)
         IN  shorter \cup {Append(q, x) : q \in {r \in shorter : Len(r) = n - 1}, x \in S}

\* A file, by what json.loads makes of its text.  The text of a "lines"
\* file does not parse as a whole (line 67): it has no line, one line that
\* does not parse, or several lines.
FilePool ==
    {[kind |-> "unreadable", items |-> <<>>], [kind |-> "scalar", items |-> <<>>]}
    \cup {[kind |-> "array", items |-> q] : q \in SeqsUpTo(ItemPool, MaxItems)}
    \cup {[kind |-> "object", items |-> <<d>>] : d \in {x \in ItemPool : x.t = "dict"}}
    \cup {[kind |-> "lines", items |-> q] :
             q \in {r \in SeqsUpTo(ItemPool \cup {BadLine}, MaxItems) :
                       Len(r) # 1 \/ r = <<BadLine>>}}

\* q without the lines that do not parse
\* the lines up to the first that does not parse
RECURSIVE ParsedLines_StopAtBad(_)
ParsedLines_StopAtBad(q) ==
    IF q = <<>> \/ Head(q) = BadLine THEN <<>>
    ELSE <<Head(q)>> \o ParsedLines_StopAtBad(Tail(q))

RECURSIVE ParsedLines(_)
ParsedLines(q) ==
    IF q = <<>> THEN <<>>
    ELSE IF Head(q) = BadLine THEN ParsedLines(Tail(q))
    ELSE <<Head(q)>> \o ParsedLines(Tail(q))

\* safe_load_json_file: [raised, items]
safe_load_json_file(f) ==
    CASE f.kind = "unreadable" -> [raised |-> TRUE,  items |-> <<>>]
      [] f.kind = "array"      -> [raised |-> FALSE, items |-> f.items]
      [] f.kind = "object"     -> [raised |-> FALSE, items |-> f.items]
      [] f.kind = "lines"      -> [raised |-> FALSE, items |-> ParsedLines(f.items)]
      [] f.kind = "scalar"     -> [raised |-> FALSE, items |-> <<>>]

\* Lines 365-367: the record after the loop body's deletion
StripReviews(it) == IF K("reviews") \in DOMAIN it THEN Del(it, K("reviews")) ELSE it

\* The items the loop of lines 364-369 gets through: it stops, by the
\* exception line 370 catches, at the first item that is not a mapping.
RECURSIVE Collectable(_)
Collectable(items) ==
    IF items = <<>> \/ Head(items).t # "dict" THEN <<>>
    ELSE <<Head(items).v>> \o Collectable(Tail(items))

\* The (det, raw) pairs appended for the mappings its
Pairs(its) ==
    [i \in 1..Len(its) |->
        [det |-> extract_deterministic_fields(StripReviews(its[i])),
         raw |-> StripReviews(its[i])]]

-----------------------------------------------------------------------------
(* build_prompt and write_batch_jsonl, normalize.py lines 201-209, 280-306 *)

Text(w) == [t |-> "text", v |-> w]
Marker  == [t |-> "marker"]

\* utils/prompt.py: the instruction text around the one input marker
PROMPT_INSTRUCTION == <<Text("INSTRUCTIONS"), Marker, Text("EXAMPLES")>>

\* json.dumps(x, ensure_ascii=False): the JSON text of x, as one piece
JsonDumps(x) == [t |-> "json", v |-> x]

\* str.replace(marker, piece) on a template
Replace(template, piece) ==
    [i \in 1..Len(template) |-> IF template[i] = Marker THEN piece ELSE template[i]]

build_prompt(record_det, raw_record) ==
    Replace(PROMPT_INSTRUCTION,
            JsonDumps([deterministic |-> record_det, raw |-> raw_record]))

\* str(n) for n >= 0
RECURSIVE DecText(_)
DecText(n) ==
    LET d == <<"0", "1", "2", "3", "4", "5", "6", "7", "8", "9">>
    IN  IF n < 10 THEN <<d[n + 1]>> ELSE DecText(n \div 10) \o <<d[(n % 10) + 1]>>

SystemMessage == <<Text("You are a helpful, precise data formatter.")>>

\* a request line numbered from one
BatchLine_FromOne(idx, pair) ==
    [custom_id |-> <<"t", "a", "s", "k", "-">> \o DecText(idx + 1),
     method    |-> "POST",
     url       |-> "/chat/completions",
     body      |-> [model    |-> "o4-mini",
                    messages |-> <<[role |-> "system", content |-> SystemMessage],
                                   [role |-> "user",
                                    content |-> build_prompt(pair.det, pair.raw)]>>]]

\* Lines 292-303: the request line of the record at position idx (from 0)
BatchLine(idx, pair) ==
    [custom_id |-> <<"t", "a", "s", "k", "-">> \o DecText(idx),
     method    |-> "POST",
     url       |-> "/chat/completions",
     body      |-> [model    |-> "o4-mini",
                    messages |-> <<[role |-> "system", content |-> SystemMessage],
                                   [role |-> "user",
                                    content |-> build_prompt(pair.det, pair.raw)]>>]]

\* write_batch_jsonl: the file as open("w") and the loop leave it
write_batch_jsonl(records) ==
    [exists |-> TRUE,
     lines  |-> [i \in 1..Len(records) |-> BatchLine(i - 1, records[i])]]

\* Lines 287, 304-306: `written`, one for each line the loop wrote
written_of(records) == Len(write_batch_jsonl(records).lines)

\* a file opened so that what it holds is kept
OpenForWrite_Append(file) == [file EXCEPT !.exists = TRUE]

\* Line 288, out_path.open("w"): the file is there and empty
OpenForWrite(file) == [exists |-> TRUE, lines |-> <<>>]

\* Lines 286-306 on the file that is at out_path
EmitTo(file, records) ==
    [exists |-> TRUE,
     lines  |-> OpenForWrite(file).lines \o write_batch_jsonl(records).lines]

\* a request file an earlier run left
StaleJsonl ==
    [exists |-> TRUE,
     lines  |-> <<[custom_id |-> <<"o", "l", "d">>, method |-> "POST",
                   url |-> "/chat/completions",
                   body |-> [model |-> "o4-mini", messages |-> <<>>]]>>]

InitialJsonl == {AbsentFile, StaleJsonl}

-----------------------------------------------------------------------------
(* normalize_records, normalize.py lines 333-379 *)

InitNormalize ==
    /\ fi = 0
    /\ files = <<>>
    /\ npc = "start"
    /\ all_records = <<>>
    /\ loaded = <<>>
    /\ jsonl \in InitialJsonl
    /\ header \in Headers
    /\ write_header = FALSE
    /\ csv \in InitialCsv(header)
    /\ ExtractIdle
    /\ OrchIdle
    /\ BatchIdle


\* Lines 342-347
Prepare ==
    /\ npc = "start"
    /\ write_header' = ~csv.exists
    /\ npc' = "collect"
    /\ UNCHANGED <<fi, files, all_records, loaded, jsonl, header, csv, xvars, ovars, bvars>>

\* Lines 361-371, one pass of the loop over json_files, the file being one
\* of pool
Load(pool, keep) ==
    /\ npc = "collect"
    /\ fi < MaxFiles
    /\ \E f \in pool :
          LET r   == safe_load_json_file(f)
              its == IF r.raised THEN <<>> ELSE Collectable(r.items)
          IN  /\ all_records' = all_records \o Pairs(its)
              /\ loaded' = loaded \o its
              /\ files' = IF keep THEN Append(files, f) ELSE files
    /\ fi' = fi + 1
    /\ UNCHANGED <<npc, jsonl, svars, xvars, ovars, bvars>>

LoadFile == Load(FilePool, FALSE)

\* Lines 373-377, once the loop has gone through the files there are
WriteBatchJsonl ==
    /\ npc = "collect"
    /\ jsonl' = EmitTo(jsonl, all_records)
    /\ npc' = "sysexit"
    /\ UNCHANGED <<fi, files, all_records, loaded, svars, xvars, ovars, bvars>>

\* Line 379: sys.exit(0) raises SystemExit, which nothing catches; the
\* statements of lines 381-500 are not reached.
SysExit ==
    /\ npc = "sysexit"
    /\ npc' = "exited"
    /\ UNCHANGED <<fi, files, all_records, loaded, jsonl, svars, xvars, ovars, bvars>>

NextNormalize == Prepare \/ LoadFile \/ WriteBatchJsonl \/ SysExit

SpecNormalize == InitNormalize /\ [][NextNormalize]_vars

\* normalize_records over a directory of sample files, the files it went
\* through being kept
SampleFiles ==
    {[kind |-> "unreadable", items |-> <<>>],
     [kind |-> "scalar", items |-> <<>>],
     [kind |-> "array", items |-> <<>>],
     [kind |-> "array", items |-> <<Dict(RecA)>>],
     [kind |-> "array", items |-> <<Dict(RecA), Dict(RecB)>>],
     [kind |-> "array", items |-> <<Dict(RecA), Num(700)>>],
     [kind |-> "array", items |-> <<Num(700), Dict(RecA)>>],
     [kind |-> "object", items |-> <<Dict(RecB)>>],
     [kind |-> "lines", items |-> <<>>],
     [kind |-> "lines", items |-> <<BadLine>>],
     [kind |-> "lines", items |-> <<Dict(RecA), Dict(RecB)>>],
     [kind |-> "lines", items |-> <<Dict(RecA), BadLine, Dict(RecB)>>]}

InitLoad ==
    /\ InitNormalize
    /\ header = HeaderA
    /\ csv = AbsentFile
    /\ jsonl = AbsentFile

LoadSampleFile == Load(SampleFiles, TRUE)

NextLoad == Prepare \/ LoadSampleFile \/ WriteBatchJsonl \/ SysExit

SpecLoad == InitLoad /\ [][NextLoad]_vars

-----------------------------------------------------------------------------
(* normalize_records, lines 381-500: workers and the write loop.          *)
(* Line 379 keeps a run of normalize_records from getting here; this part *)
(* starts from the state lines 333-377 leave.                             *)

MaxRecords       == 2   \* records submitted
MaxRetries       == 1   \* greatest max_retries
MaxWorkers       == 1   \* threads of the pool
MaxWriteFailures == 1   \* writerow calls that raise
MaxBackoffRetries == 2  \* greatest max_retries where the delays are compared

concurrency == MaxWorkers

\* a record with a link and a name: two keys
RecC == (K("link") :> Str(TxUrl)) @@ (K("name") :> Str(TxTitle))

SampleRaw(i) == IF i % 3 = 1 THEN RecA ELSE IF i % 3 = 2 THEN RecC ELSE RecB

\* what call_azure_chat_completion does: it raises, or returns a text
TxGarble  == <<"g", "a", "r", "b", "l", "e">>
TxObject  == <<"{", "\"", "n", "a", "m", "e", "\"", ":", " ", "\"", "t", "e", "a",
               "\"", ",", " ", "\"", "p", "r", "i", "c", "e", "\"", ":", " ",
               "n", "u", "l", "l", "}">>
Responses ==
    {[kind |-> "exception", text |-> <<>>],
     [kind |-> "text", text |-> TxGarble],
     [kind |-> "text", text |-> TxObject]}

\* Line 423 applied to each of them
Parsed == [resp \in Responses |->
              IF resp.kind = "text" THEN parse_and_map_output(resp.text) ELSE Null]

\* a loop over range(max_retries): one pass fewer
Attempts_OneFewer(mr) == mr

\* range(max_retries + 1): the number of passes of the loop of line 416
Attempts(mr) == mr + 1

\* a row that takes nothing from the record
normalized_row_NoRecord(parsed, deterministic, h) ==
    [col \in Cols(h) |-> Get(parsed, col)]

\* Lines 435-443
normalized_row(parsed, deterministic, h) ==
    [col \in Cols(h) |->
        IF col \in DOMAIN deterministic /\ Get(parsed, col) = Null
        THEN deterministic[col]
        ELSE Get(parsed, col)]

\* a worker that writes the row it built itself
SinkAfterWorker_Writes(file, i, row) ==
    IF DOMAIN row = {} THEN file
    ELSE [file EXCEPT !.lines = Append(@, RowLine(row, "worker", i))]

\* What a worker does to the output file: lines 411-453 hold no write.
SinkAfterWorker(file, i, row) == file

\* Lines 475-480: the row handed to writer.writerow
SerializedRow(row, h) ==
    [k \in Cols(h) |->
        IF Get(row, k).t \in {"list", "dict"} THEN JsonDumps(Get(row, k))
        ELSE Get(row, k)]

\* Lines 483-485.  all_records[idx] is the pair (det, raw) of line 369;
\* `_, (det, raw) = all_records[idx]` binds _ to det and unpacks the raw
\* record itself, a mapping, into its key names: ValueError unless it has
\* exactly two keys, and then det is a key name, a text, and det.get raises
\* AttributeError.
PlaceholderRow(pair, h) ==
    IF Cardinality(DOMAIN pair.raw) # 2
    THEN [raised |-> TRUE, error |-> "ValueError", row |-> EmptyMap]
    ELSE [raised |-> TRUE, error |-> "AttributeError", row |-> EmptyMap]

InitOrch ==
    /\ \E n \in 0..MaxRecords :
          /\ all_records = Pairs([i \in 1..n |-> SampleRaw(i)])
          /\ loaded = [i \in 1..n |-> SampleRaw(i)]
    /\ fi = 0
    /\ files = <<>>
    /\ npc = "orchestrate"
    /\ jsonl = AbsentFile
    /\ header = HeaderA
    /\ csv \in InitialCsv(header)
    /\ write_header = ~csv.exists
    /\ max_retries \in 0..MaxRetries
    /\ fut = <<>>
    /\ opc = "submit"
    /\ consumed = {}
    /\ processed = 0
    /\ write_failures = <<>>
    /\ ExtractIdle
    /\ BatchIdle

\* Lines 457-461
Submit ==
    /\ opc = "submit"
    /\ fut' = [i \in 1..Len(all_records) |->
                 [st |-> "queued", attempt |-> 0, prompt |-> <<>>, result |-> Null,
                  sent |-> {}, outcomes |-> <<>>, delays |-> <<>>]]
    /\ opc' = "open"
    /\ UNCHANGED <<max_retries, consumed, processed, write_failures,
                   nvars, svars, xvars, bvars>>

\* Lines 464-467
OpenSink ==
    /\ opc = "open"
    /\ csv' = [exists |-> TRUE,
               lines  |-> IF write_header
                          THEN Append(csv.lines, HeaderLine(header, "main"))
                          ELSE csv.lines]
    /\ opc' = "consume"
    /\ UNCHANGED <<max_retries, fut, consumed, processed, write_failures,
                   nvars, header, write_header, xvars, bvars>>

\* the calls of worker_job that hold a pool thread: between two passes of
\* the loop, or inside a model call that does not return
Running == {i \in DOMAIN fut : fut[i].st \in {"running", "calling"}}

\* A pool thread takes the oldest queued call of worker_job: lines 414-415
StartWorker(i) ==
    /\ i \in DOMAIN fut
    /\ fut[i].st = "queued"
    /\ \A j \in 1..(i - 1) : fut[j].st # "queued"
    /\ Cardinality(Running) < concurrency
    /\ fut' = [fut EXCEPT ![i] =
                 [@ EXCEPT !.st = IF Attempts(max_retries) <= 0 THEN "done" ELSE "running",
                           !.prompt = build_prompt(all_records[i].det,
                                                   all_records[i].raw)]]
    /\ UNCHANGED <<max_retries, opc, consumed, processed, write_failures,
                   nvars, svars, xvars, bvars>>

\* One pass of the loop of lines 416-451, and lines 452-453 after the last
Attempt(i) ==
    /\ i \in DOMAIN fut
    /\ fut[i].st = "running"
    /\ \E resp \in Responses :
          LET f      == fut[i]
              parsed == Parsed[resp]
              kind   == IF resp.kind = "exception" THEN "exception"
                        ELSE IF parsed = Null THEN "unparsable" ELSE "mapping"
              row    == normalized_row(parsed.v, all_records[i].det, header)
              called == [f EXCEPT !.sent = @ \cup {f.prompt},
                                  !.outcomes = Append(@, kind)]
              slept  == IF kind = "exception" THEN 1 + f.attempt * 2 ELSE 1
              last   == f.attempt + 1 >= Attempts(max_retries)
          IN  /\ fut' = [fut EXCEPT ![i] =
                           IF kind = "mapping"
                           THEN [called EXCEPT !.st = "done", !.result = Dict(row)]
                           ELSE [called EXCEPT !.attempt = @ + 1,
                                               !.delays = Append(@, slept),
                                               !.st = IF last THEN "done" ELSE "running"]]
              /\ csv' = SinkAfterWorker(csv, i,
                                        IF kind = "mapping" THEN row ELSE EmptyMap)
    /\ UNCHANGED <<max_retries, opc, consumed, processed, write_failures,
                   nvars, header, write_header, xvars, bvars>>

\* One pass of the loop of lines 468-495, for the completed future of record i
Consume(i) ==
    /\ opc = "consume"
    /\ i \in DOMAIN fut
    /\ fut[i].st = "done"
    /\ i \notin consumed
    /\ consumed' = consumed \cup {i}
    /\ processed' = processed + 1
    /\ LET row == fut[i].result
           ph  == PlaceholderRow(all_records[i], header)
           out == IF Truthy(row) THEN SerializedRow(row.v, header) ELSE ph.row
       IN  IF ~Truthy(row) /\ ph.raised
           THEN UNCHANGED <<csv, write_failures>>
           ELSE \E fails \in BOOLEAN :
                   /\ fails => Len(write_failures) < MaxWriteFailures
                   /\ csv' = IF fails THEN csv
                             ELSE [csv EXCEPT !.lines = Append(@, RowLine(out, "main", i))]
                   /\ write_failures' = IF fails THEN Append(write_failures, processed')
                                        ELSE write_failures
    /\ UNCHANGED <<max_retries, fut, opc, nvars, header, write_header, xvars, bvars>>

\* Lines 497-500, after the last future
Complete ==
    /\ opc = "consume"
    /\ consumed = DOMAIN fut
    /\ opc' = "complete"
    /\ UNCHANGED <<max_retries, fut, consumed, processed, write_failures,
                   nvars, svars, xvars, bvars>>

NextOrch ==
    \/ Submit
    \/ OpenSink
    \/ \E i \in 1..MaxRecords : StartWorker(i)
    \/ \E i \in 1..MaxRecords : Attempt(i)
    \/ \E i \in 1..MaxRecords : Consume(i)
    \/ Complete

SpecOrch == InitOrch /\ [][NextOrch]_vars

\* Lines 418-425 and 253-259, when the service does not answer: the request
\* is sent by client.chat.completions.create, which is given no timeout (the
\* `timeout` parameter of line 219 is passed to nothing), and neither
\* worker_job nor the loop over as_completed (line 468) waits with one: the
\* worker stays inside the call.
NoAnswer(i) ==
    /\ i \in DOMAIN fut
    /\ fut[i].st = "running"
    /\ fut' = [fut EXCEPT ![i] = [@ EXCEPT !.st = "calling",
                                          !.sent = @ \cup {fut[i].prompt}]]
    /\ UNCHANGED <<max_retries, opc, consumed, processed, write_failures,
                   nvars, svars, xvars, bvars>>

NextOrchLive ==
    \/ NextOrch
    \/ \E i \in 1..MaxRecords : NoAnswer(i)

\* The main thread and the pool's threads keep running, and a call that is
\* answered returns: every step of the program that stays possible is taken.
\* Whether the service answers is not the program's to choose.
FairOrch ==
    /\ WF_vars(Submit)
    /\ WF_vars(OpenSink)
    /\ WF_vars(Complete)
    /\ \A i \in 1..MaxRecords :
          WF_vars(StartWorker(i)) /\ WF_vars(Attempt(i)) /\ WF_vars(Consume(i))

\* the orchestrator with a service that may leave a call unanswered
SpecOrchLive == InitOrch /\ [][NextOrchLive]_vars /\ FairOrch

\* the orchestrator with a service that answers every call
SpecOrchAnswered == InitOrch /\ [][NextOrch]_vars /\ FairOrch

\* One record and up to MaxBackoffRetries retries, to compare the delays of
\* worker_job (lines 416-453) between attempts
InitBackoff ==
    /\ all_records = Pairs(<<SampleRaw(1)>>)
    /\ loaded = <<SampleRaw(1)>>
    /\ fi = 0
    /\ files = <<>>
    /\ npc = "orchestrate"
    /\ jsonl = AbsentFile
    /\ header = HeaderA
    /\ csv \in InitialCsv(header)
    /\ write_header = ~csv.exists
    /\ max_retries \in 0..MaxBackoffRetries
    /\ fut = <<>>
    /\ opc = "submit"
    /\ consumed = {}
    /\ processed = 0
    /\ write_failures = <<>>
    /\ ExtractIdle
    /\ BatchIdle

SpecBackoff == InitBackoff /\ [][NextOrch]_vars

-----------------------------------------------------------------------------
(* scripts/process_batch.py *)

MaxLines == 2   \* lines of the batch results file

\* str.lower()
LowerChar(c) ==
    IF c \in Upper THEN LowerSeq[CHOOSE i \in 1..26 : UpperSeq[i] = c] ELSE c

LowerText(s) == [i \in 1..Len(s) |-> LowerChar(s[i])]

\* str.replace(" ", c) for a one-character c
SpacesTo(s, c) == [i \in 1..Len(s) |-> IF s[i] = " " THEN c ELSE s[i]]

\* The first of the candidates in the mapping's item order.  The mappings
\* of the model keep no item order: one fixed order stands for it.
FirstOf(S) == CHOOSE x \in S : TRUE

\* The items of a mapping, in that order
ItemsOf(parsed) ==
    CHOOSE q \in [1..Cardinality(DOMAIN parsed) ->
                      {[k |-> k, v |-> parsed[k]] : k \in DOMAIN parsed}] :
        \A i, j \in DOMAIN q : i # j => q[i] # q[j]

\* the value items holds under key k (parsed[k]); k is a key of items
ValueAt(items, k) == items[CHOOSE i \in DOMAIN items : items[i].k = k].v

\* k in parsed
HasKey(items, k) == \E i \in DOMAIN items : items[i].k = k

\* Lines 148-151: the value of the first item whose trimmed, lowercased key
\* is lk; None when there is none
LooseMatch(items, lk) ==
    IF \E i \in DOMAIN items : LowerText(Strip(items[i].k)) = lk
    THEN items[CHOOSE i \in DOMAIN items :
                  /\ LowerText(Strip(items[i].k)) = lk
                  /\ \A j \in 1..(i - 1) : LowerText(Strip(items[j].k)) # lk].v
    ELSE Null

\* the attempts of lines 129-146 were made the other way round
Forms_LowerFirst(header_key) ==
    <<LowerText(header_key), header_key,
      LowerText(SpacesTo(header_key, "_")), SpacesTo(header_key, "_"),
      LowerText(Without(header_key, " ")), Without(header_key, " ")>>

\* Lines 129-146: the keys tried, in the order they are tried
Forms(header_key) ==
    <<header_key, LowerText(header_key),
      SpacesTo(header_key, "_"), LowerText(SpacesTo(header_key, "_")),
      Without(header_key, " "), LowerText(Without(header_key, " "))>>

\* _value_for_header, lines 121-152, for the items of a parsed mapping
value_for_header_items(items, header_key) ==
    IF \E n \in 1..6 : HasKey(items, Forms(header_key)[n])
    THEN ValueAt(items, Forms(header_key)[CHOOSE n \in 1..6 :
                            /\ HasKey(items, Forms(header_key)[n])
                            /\ \A m \in 1..(n - 1) : ~HasKey(items, Forms(header_key)[m])])
    ELSE LooseMatch(items, LowerText(header_key))

\* _value_for_header, lines 121-152, for a parsed mapping
value_for_header(parsed, header_key) == value_for_header_items(ItemsOf(parsed), header_key)

\* Lines 31-38 and lines 219-225: the first choice, its message and the
\* message's content.  raised: a .get was applied to a value that has none,
\* or choices[0] to a mapping.
NoChoice == [raised |-> FALSE, has |-> FALSE, first |-> Null, content |-> Null]
Raises   == [raised |-> TRUE, has |-> FALSE, first |-> Null, content |-> Null]

ChoicePath(obj) ==
    IF obj.t # "dict" THEN Raises
    ELSE LET resp == Or(Get(obj.v, K("response")), Dict(EmptyMap))
         IN  IF resp.t # "dict" THEN Raises
             ELSE LET body == Or(Get(resp.v, K("body")), Dict(EmptyMap))
                  IN  IF body.t # "dict" THEN Raises
                      ELSE LET choices == Or(Get(body.v, K("choices")), List(<<>>))
                           IN  IF ~(Truthy(choices) /\ choices.t = "list") THEN NoChoice
                               ELSE LET first == choices.v[1]
                                    IN  IF first.t # "dict" THEN Raises
                                        ELSE LET msg == Or(Get(first.v, K("message")),
                                                           Dict(EmptyMap))
                                             IN  IF msg.t # "dict" THEN Raises
                                                 ELSE [raised  |-> FALSE,
                                                       has     |-> TRUE,
                                                       first   |-> first,
                                                       content |-> Get(msg.v, K("content"))]

\* Line 57
LooksLikeJson(v) == \E i \in 1..Len(v) : v[i] \in {"{", "]", Quote}

\* search_for_content, lines 51-69: the texts it can come upon
RECURSIVE Found(_)
Found(d) ==
    IF d.t # "dict" THEN {}
    ELSE UNION {
           LET v == d.v[k]
           IN  IF k = K("content") /\ v.t = "str" /\ LooksLikeJson(v.v) THEN {v}
               ELSE IF v.t = "dict" THEN Found(v)
               ELSE IF v.t = "list" THEN UNION {Found(v.v[i]) : i \in 1..Len(v.v)}
               ELSE {}
           : k \in DOMAIN d.v}

\* Lines 46-71: the fallbacks
Fallback(obj, found) ==
    IF K("content") \in DOMAIN obj.v THEN obj.v[K("content")]
    ELSE IF found # {} THEN FirstOf(found)
    ELSE Null

\* Lines 34-71, after the path p
FromChoice(obj, p) ==
    IF p.raised THEN Null
    ELSE IF p.has /\ Truthy(p.content) THEN p.content
    ELSE IF p.has /\ Truthy(Get(p.first.v, K("text"))) THEN Get(p.first.v, K("text"))
    ELSE Fallback(obj, Found(obj))

\* _extract_content_from_line, lines 24-74: the content, Null for None
extract_content_from_line(obj) == FromChoice(obj, ChoicePath(obj))

\* Lines 248-252: [raised, cid]
CorrelationId(obj) ==
    IF obj.t # "dict" THEN [raised |-> TRUE, cid |-> Null]
    ELSE IF Truthy(Get(obj.v, K("custom_id")))
         THEN [raised |-> FALSE, cid |-> Get(obj.v, K("custom_id"))]
    ELSE LET resp == Or(Get(obj.v, K("response")), Dict(EmptyMap))
         IN  IF resp.t # "dict" THEN [raised |-> TRUE, cid |-> Null]
             ELSE [raised |-> FALSE, cid |-> OrNone(Get(resp.v, K("request_id")))]

\* Lines 234-243
MappedRow(parsed, h) ==
    [col \in Cols(h) |->
        LET val == value_for_header(parsed, col)
        IN  IF val.t \in {"list", "dict"} THEN JsonDumps(val) ELSE val]

\* Lines 246-260
Placeholder(cid, h) ==
    [c \in Cols(h) |-> IF c = K("product ID") /\ Truthy(cid) THEN cid ELSE Null]

TxTrue  == <<"t", "r", "u", "e">>
TxFalse == <<"f", "a", "l", "s", "e">>

\* a row that leaves out the columns that have no value
safe_row_SkipNull(row, h) ==
    [k \in {c \in Cols(h) : row[c] # Null} |-> row[k]]

\* a row whose booleans are left as they are
safe_row_KeepBool(row, h) ==
    [k \in Cols(h) |->
        IF row[k].t \in {"list", "dict"} THEN JsonDumps(row[k])
        ELSE IF row[k].t = "null" THEN Str(<<>>)
        ELSE row[k]]

\* Lines 272-283
safe_row(row, h) ==
    [k \in Cols(h) |->
        LET v == row[k]
        IN  IF v.t \in {"list", "dict"} THEN JsonDumps(v)
            ELSE IF v.t = "bool" THEN Str(IF v.v THEN TxTrue ELSE TxFalse)
            ELSE IF v.t = "null" THEN Str(<<>>)
            ELSE v]

Raised == [raised |-> TRUE, row |-> EmptyMap]

\* Lines 244-285, with the correlation id c
PlaceholderPath(c, h) ==
    IF c.raised THEN Raised
    ELSE [raised |-> FALSE, row |-> safe_row(Placeholder(c.cid, h), h)]

\* Lines 231-285, with what was parsed
BuildRow(obj, parsed, h) ==
    IF Truthy(parsed)
    THEN [raised |-> FALSE, row |-> safe_row(MappedRow(parsed.v, h), h)]
    ELSE PlaceholderPath(CorrelationId(obj), h)

\* Lines 218-229: the message content when it is a mapping
DecodedContent(p) ==
    IF ~p.raised /\ p.has /\ p.content.t = "dict" THEN p.content ELSE Null

\* Lines 215-285, with what line 212 returned
AfterParse(obj, parsed0, h) ==
    IF parsed0 = Null THEN BuildRow(obj, DecodedContent(ChoicePath(obj)), h)
    ELSE BuildRow(obj, parsed0, h)

\* Lines 210-285, with the content: content.strip() of line 83 raises when the
\* content is not a text
AfterContent(obj, content_str, h) ==
    IF ~Truthy(content_str) THEN AfterParse(obj, Null, h)
    ELSE IF content_str.t # "str" THEN Raised
    ELSE The({AfterParse(obj, parsed0, h) :
                 parsed0 \in {ExtractJsonFromText(content_str.v)}})

\* Lines 207-285 for one decoded line: [raised, row]
RowOfLine(obj, h) ==
    The({AfterContent(o, content_str, h) :
            o \in {obj}, content_str \in {extract_content_from_line(obj)}})

\* The deterministic fields of the record that a result line answers.
\* process_batch_jsonl_to_csv is given the results file and the template
\* (line 155): whatever these fields are, it has no access to them.
BatchSourceFields == extract_deterministic_fields(RecA)

\* lines of a batch results file
LnBlank ==
    <<" ", " ">>

LnNotJson ==
    <<"o", "o", "p", "s">>

LnMapped ==
    <<"{", "\"", "c", "u", "s", "t", "o", "m", "_", "i", "d", "\"", ":",
    "\"", "t", "0", "\"", ",", "\"", "r", "e", "s", "p", "o", "n", "s",
    "e", "\"", ":", "{", "\"", "b", "o", "d", "y", "\"", ":", "{", "\"",
    "c", "h", "o", "i", "c", "e", "s", "\"", ":", "[", "{", "\"", "m", "e",
    "s", "s", "a", "g", "e", "\"", ":", "{", "\"", "c", "o", "n", "t", "e",
    "n", "t", "\"", ":", "\"", "{", "\\", "\"", "n", "a", "m", "e", "\\",
    "\"", ":", "\\", "\"", "t", "e", "a", "\\", "\"", ",", "\\", "\"", "P",
    "r", "i", "c", "e", "\\", "\"", ":", "[", "1", "]", ",", "\\", "\"",
    "u", "r", "l", "\\", "\"", ":", "t", "r", "u", "e", "}", "\"", "}",
    "}", "]", "}", "}", "}">>

LnGarbled ==
    <<"{", "\"", "c", "u", "s", "t", "o", "m", "_", "i", "d", "\"", ":",
    "\"", "t", "1", "\"", ",", "\"", "r", "e", "s", "p", "o", "n", "s",
    "e", "\"", ":", "{", "\"", "b", "o", "d", "y", "\"", ":", "{", "\"",
    "c", "h", "o", "i", "c", "e", "s", "\"", ":", "[", "{", "\"", "m", "e",
    "s", "s", "a", "g", "e", "\"", ":", "{", "\"", "c", "o", "n", "t", "e",
    "n", "t", "\"", ":", "\"", "g", "a", "r", "b", "l", "e", "\"", "}",
    "}", "]", "}", "}", "}">>

LnEmptyContent ==
    <<"{", "\"", "r", "e", "s", "p", "o", "n", "s", "e", "\"", ":", "{",
    "\"", "r", "e", "q", "u", "e", "s", "t", "_", "i", "d", "\"", ":",
    "\"", "r", "1", "\"", ",", "\"", "b", "o", "d", "y", "\"", ":", "{",
    "\"", "c", "h", "o", "i", "c", "e", "s", "\"", ":", "[", "{", "\"",
    "m", "e", "s", "s", "a", "g", "e", "\"", ":", "{", "\"", "c", "o", "n",
    "t", "e", "n", "t", "\"", ":", "{", "}", "}", "}", "]", "}", "}",
    "}">>

LnArray ==
    <<"[", "1", "]">>

LnTextResponse ==
    <<"{", "\"", "r", "e", "s", "p", "o", "n", "s", "e", "\"", ":", "\"",
    "x", "\"", "}">>

LnMappingContent ==
    <<"{", "\"", "r", "e", "s", "p", "o", "n", "s", "e", "\"", ":", "{",
    "\"", "b", "o", "d", "y", "\"", ":", "{", "\"", "c", "h", "o", "i",
    "c", "e", "s", "\"", ":", "[", "{", "\"", "m", "e", "s", "s", "a", "g",
    "e", "\"", ":", "{", "\"", "c", "o", "n", "t", "e", "n", "t", "\"",
    ":", "{", "\"", "n", "a", "m", "e", "\"", ":", "\"", "t", "e", "a",
    "\"", "}", "}", "}", "]", "}", "}", "}">>

\* a mapping that leaves out the url and holds no price
LnPartial ==
    <<"{", "\"", "c", "u", "s", "t", "o", "m", "_", "i", "d", "\"", ":",
    "\"", "t", "2", "\"", ",", "\"", "r", "e", "s", "p", "o", "n", "s",
    "e", "\"", ":", "{", "\"", "b", "o", "d", "y", "\"", ":", "{", "\"",
    "c", "h", "o", "i", "c", "e", "s", "\"", ":", "[", "{", "\"", "m",
    "e", "s", "s", "a", "g", "e", "\"", ":", "{", "\"", "c", "o", "n",
    "t", "e", "n", "t", "\"", ":", "\"", "{", "\\", "\"", "n", "a", "m",
    "e", "\\", "\"", ":", "\\", "\"", "t", "e", "a", "\\", "\"", ",",
    "\\", "\"", "p", "r", "i", "c", "e", "\\", "\"", ":", "n", "u", "l",
    "l", "}", "\"", "}", "}", "]", "}", "}", "}">>

LinePool == {LnBlank, LnNotJson, LnMapped, LnGarbled, LnEmptyContent,
             LnArray, LnTextResponse, LnMappingContent, LnPartial}

\* Lines 196-205 on each of them: blank, notjson, or the decoded value
Decoded ==
    [l \in LinePool |->
        IF Strip(l) = <<>> THEN [kind |-> "blank", obj |-> Null]
        ELSE LET r == JsonLoads(Strip(l))
             IN  IF r.ok THEN [kind |-> "json", obj |-> r.val]
                 ELSE [kind |-> "notjson", obj |-> Null]]

\* Lines 207-285 on each decoded line, for each header
Rows == [l \in LinePool |-> [h \in Headers |->
            IF Decoded[l].kind = "json" THEN RowOfLine(Decoded[l].obj, h)
            ELSE [raised |-> FALSE, row |-> EmptyMap]]]

InitBatch ==
    /\ header \in Headers
    /\ csv \in InitialCsv(header)
    /\ write_header = FALSE
    /\ blines = <<>>
    /\ bpc \in {"start", "missing"}
    /\ total = 0
    /\ written = 0
    /\ NormalizeIdle
    /\ ExtractIdle
    /\ OrchIdle

\* Lines 164-165
BatchNotFound ==
    /\ bpc = "missing"
    /\ bpc' = "raised"
    /\ UNCHANGED <<blines, total, written, svars, nvars, xvars, ovars>>

\* Lines 189-193: both files opened, the output for writing, and the header
\* written
BatchOpen ==
    /\ bpc = "start"
    /\ csv' = [exists |-> TRUE, lines |-> <<HeaderLine(header, "batch")>>]
    /\ bpc' = "loop"
    /\ UNCHANGED <<blines, total, written, header, write_header, nvars, xvars, ovars>>

\* One pass of the loop of lines 194-292
BatchLineStep ==
    /\ bpc = "loop"
    /\ total < MaxLines
    /\ \E l \in LinePool :
       \E r \in {Rows[l][header]} :
              /\ blines' = Append(blines, l)
              /\ total' = total + 1
              /\ IF Decoded[l].kind # "json"
                 THEN UNCHANGED <<csv, written, bpc>>
                 ELSE IF r.raised
                      THEN bpc' = "raised" /\ UNCHANGED <<csv, written>>
                      ELSE /\ csv' = [csv EXCEPT !.lines =
                                         Append(@, RowLine(r.row, "batch", total'))]
                           /\ written' = written + 1
                           /\ UNCHANGED bpc
    /\ UNCHANGED <<header, write_header, nvars, xvars, ovars>>

\* Lines 294-302: the input had no further line
BatchDone ==
    /\ bpc = "loop"
    /\ bpc' = "done"
    /\ UNCHANGED <<blines, total, written, svars, nvars, xvars, ovars>>

NextBatch ==
    \/ BatchNotFound
    \/ BatchOpen
    \/ BatchLineStep
    \/ BatchDone

SpecBatch == InitBatch /\ [][NextBatch]_vars

-----------------------------------------------------------------------------
(* _extract_json_from_content on its own, process_batch.py lines 77-118 *)

\* what a response may hold between its wrapping
TcEmpty == <<>>
TcObject == <<"{", "\"", "a", "\"", ":", "1", "}">>
TcNested == <<"{", "\"", "a", "\"", ":", "1", ",",
             "\"", "b", "\"", ":", "[", "1", ",", "2", "]", "}">>
TcListOfObject == <<"[", "{", "\"", "a", "\"", ":", "1", "}", "]">>
TcListOfTwo == <<"[", "{", "\"", "a", "\"", ":", "1", "}", ",",
                "{", "\"", "b", "\"", ":", "2", "}", "]">>
TcListOfNumber == <<"[", "1", "]">>
TcNumber == <<"1", "2">>
TcGarble == <<"n", "/", "a">>
TcReversed == <<"}", "{">>
TcEscaped == <<"{", "\\", "\"", "a", "\\", "\"", ":", "1", "}">>
TcTruncated == <<"{", "\"", "a", "\"", ":", "1">>
TcEmptyObject == <<"{", "}">>

ContentBodies ==
    {[text |-> TcEmpty, holds |-> Null],
     [text |-> TcObject, holds |-> Dict((<<"a">> :> Num(100)))],
     [text |-> TcNested, holds |-> Dict((<<"a">> :> Num(100))
                                      @@ (<<"b">> :> List(<<Num(100), Num(200)>>)))],
     [text |-> TcListOfObject, holds |-> Dict((<<"a">> :> Num(100)))],
     [text |-> TcListOfTwo, holds |-> Null],
     [text |-> TcListOfNumber, holds |-> Null],
     [text |-> TcNumber, holds |-> Null],
     [text |-> TcGarble, holds |-> Null],
     [text |-> TcReversed, holds |-> Null],
     [text |-> TcEscaped, holds |-> Dict((<<"a">> :> Num(100)))],
     [text |-> TcTruncated, holds |-> Null],
     [text |-> TcEmptyObject, holds |-> Dict(EmptyMap)]}

TcPrefix   == <<"p", "r", "e", "f", "i", "x", " ", "t", "e", "x", "t", " ">>
TcTrailing == <<" ", "t", "r", "a", "i", "l", "i", "n", "g">>

\* what may stand around it
ContentWraps ==
    {[name |-> "bare", before |-> <<>>, after |-> <<>>],
     [name |-> "padded", before |-> <<" ", "\n">>, after |-> <<"\n", " ">>],
     [name |-> "around", before |-> TcPrefix, after |-> TcTrailing],
     [name |-> "fenced", before |-> Fence \o <<"\n">>, after |-> <<"\n">> \o Fence],
     [name |-> "fenced_tag", before |-> Fence \o <<"j", "s", "o", "n", "\n">>,
      after |-> <<"\n">> \o Fence],
     [name |-> "fenced_brace", before |-> Fence \o <<"{", "r", "}", "\n">>,
      after |-> <<"\n">> \o Fence],
     [name |-> "one_line", before |-> Fence, after |-> Fence],
     [name |-> "two_lines", before |-> Fence \o <<"\n">>, after |-> Fence],
     [name |-> "open_fence", before |-> Fence \o <<"\n">>, after |-> <<>>]}

ContentTexts == {w.before \o b.text \o w.after : w \in ContentWraps, b \in ContentBodies}

InitContent ==
    /\ ctext \in ContentTexts
    /\ cres = NotCalled
    /\ xrec = EmptyMap
    /\ xout = NotCalled
    /\ FunctionsIdle
    /\ LookupIdle
    /\ EmitIdle
    /\ NormalizeIdle
    /\ SinkIdle
    /\ OrchIdle
    /\ BatchIdle

\* the call _extract_json_from_content(content)
ExtractJson ==
    /\ cres = NotCalled
    /\ \E r \in {ExtractJsonFromText(ctext)} : cres' = r
    /\ UNCHANGED <<ctext, xrec, xout, hvars, evars, fvars, nvars, svars, ovars, bvars>>

NextContent == ExtractJson

SpecContent == InitContent /\ [][NextContent]_vars

-----------------------------------------------------------------------------
(* _value_for_header on its own, process_batch.py lines 121-152 *)

MaxKeys == 2      \* keys of a parsed mapping

\* keys a response may use
TkExact           == <<"p", "r", "o", "d", "u", "c", "t", " ", "I", "D">>
TkLower           == <<"p", "r", "o", "d", "u", "c", "t", " ", "i", "d">>
TkUnderscore      == <<"p", "r", "o", "d", "u", "c", "t", "_", "I", "D">>
TkUnderscoreLower == <<"p", "r", "o", "d", "u", "c", "t", "_", "i", "d">>
TkJoined          == <<"p", "r", "o", "d", "u", "c", "t", "I", "D">>
TkJoinedLower     == <<"p", "r", "o", "d", "u", "c", "t", "i", "d">>
TkCapital         == <<"P", "r", "o", "d", "u", "c", "t", " ", "I", "D">>
TkPadded          == <<" ", "P", "R", "O", "D", "U", "C", "T", " ", "I", "D", " ">>
TkSku             == <<"s", "k", "u">>
TkName            == <<"N", "a", "m", "e">>
TkNameExact       == <<"n", "a", "m", "e">>

LookupKeys == {TkExact, TkLower, TkUnderscore, TkUnderscoreLower, TkJoined, TkJoinedLower,
               TkCapital, TkPadded, TkSku, TkName, TkNameExact}

\* the mappings of up to MaxKeys of these keys, in every iteration order;
\* each key holds its own text, so that a result tells which key gave it
LookupMappings ==
    {q \in UNION {[1..n -> {[k |-> k, v |-> Str(k)] : k \in LookupKeys}] : n \in 0..MaxKeys} :
        \A i, j \in DOMAIN q : i # j => q[i].k # q[j].k}

InitLookup ==
    /\ hparsed \in LookupMappings
    /\ hkey \in {K("product ID"), K("name"), TkUnderscore}
    /\ hres = NotCalled
    /\ xrec = EmptyMap
    /\ xout = NotCalled
    /\ FunctionsIdle
    /\ ContentIdle
    /\ EmitIdle
    /\ NormalizeIdle
    /\ SinkIdle
    /\ OrchIdle
    /\ BatchIdle

\* the call _value_for_header(parsed, header_key)
ValueForHeader ==
    /\ hres = NotCalled
    /\ hres' = value_for_header_items(hparsed, hkey)
    /\ UNCHANGED <<hparsed, hkey, xrec, xout, cvars, evars, fvars, nvars, svars, ovars, bvars>>

NextLookup == ValueForHeader

SpecLookup == InitLookup /\ [][NextLookup]_vars

-----------------------------------------------------------------------------
(* write_batch_jsonl on its own, normalize.py lines 280-306 *)

MaxRuns == 2      \* calls of write_batch_jsonl on the same records

\* records write_batch_jsonl may be given
EmitPool == {RecA, RecB, RecC, EmptyMap}

InitEmit ==
    /\ all_records \in {Pairs(q) : q \in SeqsUpTo(EmitPool, MaxRecords)}
    /\ jsonl \in InitialJsonl
    /\ emit_before = jsonl
    /\ emit_runs = 0
    /\ emit_written = NotCalled
    /\ emit_first = <<>>
    /\ fi = 0
    /\ files = <<>>
    /\ npc = "idle"
    /\ loaded = <<>>
    /\ xrec = EmptyMap
    /\ xout = NotCalled
    /\ FunctionsIdle
    /\ ContentIdle
    /\ LookupIdle
    /\ SinkIdle
    /\ OrchIdle
    /\ BatchIdle

\* one call write_batch_jsonl(all_records, out_path)
Emit ==
    /\ emit_runs < MaxRuns
    /\ jsonl' = EmitTo(jsonl, all_records)
    /\ emit_written' = written_of(all_records)
    /\ emit_runs' = emit_runs + 1
    /\ emit_first' = IF emit_runs = 0 THEN jsonl'.lines ELSE emit_first
    /\ UNCHANGED <<emit_before, fi, files, npc, all_records, loaded, xrec, xout, cvars, hvars,
                   fvars, svars, ovars, bvars>>

NextEmit == Emit

SpecEmit == InitEmit /\ [][NextEmit]_vars

-----------------------------------------------------------------------------
(* _extract_content_from_line on its own, process_batch.py lines 24-74 *)

\* values a line may hold under a key
FbPlain == Str(<<"p", "l", "a", "i", "n">>)
FbJson  == Str(<<"{", "}">>)
FbList  == Str(<<"[", "1", "]">>)

\* what the line holds at its top level under "content", if anything
LineTops ==
    {EmptyMap} \cup {(K("content") :> v) : v \in {FbPlain, Num(500), FbJson}}

\* what it nests under another key, if anything
LineNested ==
    {EmptyMap} \cup
    {(K("details") :> v) :
        v \in {Dict(K("content") :> FbPlain),
               Dict(K("content") :> FbJson),
               Dict(K("content") :> Num(500)),
               Dict(K("content") :> Dict(K("content") :> FbList)),
               List(<<Dict(K("content") :> FbPlain), Dict(K("content") :> FbList)>>)}}

\* its first choice, if any: an empty content, a content, a text
LineChoices ==
    {EmptyMap} \cup
    {(K("response") :> Dict(K("body") :> Dict(K("choices") :> List(<<Dict(first)>>)))) :
        first \in {(K("message") :> Dict(K("content") :> Str(<<>>))),
                   (K("message") :> Dict(K("content") :> FbJson)),
                   (K("text") :> FbPlain)}}

LineObjects ==
    {Dict(top @@ nested @@ choice) :
        top \in LineTops, nested \in LineNested, choice \in LineChoices}

InitLine ==
    /\ lobj \in LineObjects
    /\ lres = NotCalled
    /\ DownloadIdle
    /\ PromptIdle
    /\ MainIdle
    /\ xrec = EmptyMap
    /\ xout = NotCalled
    /\ ContentIdle
    /\ LookupIdle
    /\ EmitIdle
    /\ NormalizeIdle
    /\ SinkIdle
    /\ OrchIdle
    /\ BatchIdle

\* the call _extract_content_from_line(obj)
ExtractContent ==
    /\ lres = NotCalled
    /\ lres' = extract_content_from_line(lobj)
    /\ UNCHANGED <<lobj, dvars, pvars, mvars, xrec, xout, cvars, hvars, evars, nvars, svars, ovars, bvars>>

NextLine == ExtractContent

SpecLine == InitLine /\ [][NextLine]_vars

-----------------------------------------------------------------------------
(* download_dataset_to_file, apify_client.py lines 88-103, and the load of *)
(* the file it wrote, normalize.py lines 57-82                             *)

\* the texts of q, one after the other, with sep between them
RECURSIVE Joined(_, _)
Joined(q, sep) ==
    IF q = <<>> THEN <<>>
    ELSE IF Len(q) = 1 THEN q[1]
    ELSE q[1] \o sep \o Joined(Tail(q), sep)

\* one character of a text inside repr's quotes q
ReprChar(c, q) ==
    IF c = Backslash THEN <<Backslash, Backslash>>
    ELSE IF c = q THEN <<Backslash, q>>
    ELSE IF c = "\n" THEN <<Backslash, "n">>
    ELSE <<c>>

\* repr of a str: in single quotes, in double quotes when the text holds a
\* single quote and no double quote
ReprStr(s) ==
    LET q == IF (\E i \in 1..Len(s) : s[i] = "'") /\ ~(\E i \in 1..Len(s) : s[i] = Quote)
             THEN Quote ELSE "'"
    IN  <<q>> \o Joined([i \in 1..Len(s) |-> ReprChar(s[i], q)], <<>>) \o <<q>>

\* str(x), lines 100: Python's repr of a list, a mapping, a text, a whole
\* number, True, False, None
RECURSIVE PyRepr(_)
PyRepr(x) ==
    CASE x.t = "null" -> <<"N", "o", "n", "e">>
      [] x.t = "bool" -> IF x.v THEN <<"T", "r", "u", "e">> ELSE <<"F", "a", "l", "s", "e">>
      [] x.t = "num"  -> DecText(x.v \div 100)
      [] x.t = "str"  -> ReprStr(x.v)
      [] x.t = "list" ->
            <<"[">> \o Joined([i \in 1..Len(x.v) |-> PyRepr(x.v[i])], <<",", " ">>) \o <<"]">>
      [] x.t = "dict" ->
            <<"{">> \o Joined([i \in 1..Cardinality(DOMAIN x.v) |->
                                 ReprStr(ItemsOf(x.v)[i].k) \o <<":", " ">>
                                     \o PyRepr(ItemsOf(x.v)[i].v)],
                              <<",", " ">>) \o <<"}">>

\* one character of a text inside a JSON string
JsonChar(c) ==
    IF c = Backslash THEN <<Backslash, Backslash>>
    ELSE IF c = Quote THEN <<Backslash, Quote>>
    ELSE IF c = "\n" THEN <<Backslash, "n">>
    ELSE <<c>>

\* json.dump(s, fh, ensure_ascii=False, indent=2) for a str s: the text
\* written
JsonDumpStr(s) ==
    <<Quote>> \o Joined([i \in 1..Len(s) |-> JsonChar(s[i])], <<>>) \o <<Quote>>

\* Lines 98-100: the text of the file written for the items
download_dataset_to_file(items) == JsonDumpStr(PyRepr(List(items)))

\* one line of a file that did not parse as a whole, lines 72-75
LineItem(ln) ==
    LET r == JsonLoads(Strip(ln)) IN IF r.ok THEN r.val ELSE BadLine

\* the lines of a text that are not blank, line 70
FilledLines(text) == SelectSeq(SplitLines(text), LAMBDA ln : Strip(ln) # <<>>)

\* A file's text as safe_load_json_file sees it, lines 59-75
FileOfText(text) ==
    LET r == JsonLoads(text)
    IN  IF ~r.ok
        THEN [kind |-> "lines",
              items |-> [i \in 1..Len(FilledLines(text)) |-> LineItem(FilledLines(text)[i])]]
        ELSE IF r.val.t = "list" THEN [kind |-> "array", items |-> r.val.v]
        ELSE IF r.val.t = "dict" THEN [kind |-> "object", items |-> <<r.val>>]
        ELSE [kind |-> "scalar", items |-> <<>>]

\* items a dataset may hold
DatasetItems ==
    {Dict(EmptyMap),
     Dict(K("name") :> Str(<<"t", "e", "a">>)),
     Dict(K("title") :> Str(<<"5", Quote>>)),
     Dict(K("name") :> Null),
     Dict(K("price") :> Num(500)),
     Dict(K("images") :> List(<<Str(<<"i", "t", "'", "s">>), Bool(TRUE)>>))}

InitDownload ==
    /\ dl_items \in SeqsUpTo(DatasetItems, MaxItems)
    /\ dl_file = NotCalled
    /\ dl_loaded = NotCalled
    /\ LineIdle
    /\ PromptIdle
    /\ MainIdle
    /\ xrec = EmptyMap
    /\ xout = NotCalled
    /\ ContentIdle
    /\ LookupIdle
    /\ EmitIdle
    /\ NormalizeIdle
    /\ SinkIdle
    /\ OrchIdle
    /\ BatchIdle

\* the call download_dataset_to_file(dataset_id, output_path)
Download ==
    /\ dl_file = NotCalled
    /\ dl_file' = download_dataset_to_file(dl_items)
    /\ UNCHANGED <<dl_items, dl_loaded, lvars, pvars, mvars, xrec, xout, cvars, hvars, evars,
                   nvars, svars, ovars, bvars>>

\* the call safe_load_json_file(output_path)
LoadSaved ==
    /\ dl_file # NotCalled
    /\ dl_loaded = NotCalled
    /\ dl_loaded' = safe_load_json_file(FileOfText(dl_file))
    /\ UNCHANGED <<dl_items, dl_file, lvars, pvars, mvars, xrec, xout, cvars, hvars, evars,
                   nvars, svars, ovars, bvars>>

NextDownload == Download \/ LoadSaved

SpecDownload == InitDownload /\ [][NextDownload]_vars

-----------------------------------------------------------------------------
(* build_prompt as text, normalize.py lines 201-209 and prompt.py *)

\* the marker of prompt.py line 66
MarkerText ==
    <<"<", "<", "<", "I", "N", "P", "U", "T", "_", "P", "R", "O", "D", "U", "C", "T", "_", "J", "S", "O", "N", ">", ">", ">">>

\* PROMPT_INSTRUCTION: text, the marker on a line of its own, text
InstructionText ==
    <<"C", "O", "N", "T", "E", "X", "T", ":", "\n", "\n">>
    \o MarkerText \o
    <<"\n", "\n", "E", "X", "A", "M", "P", "L", "E", "S">>

TxDeterministic == <<"d", "e", "t", "e", "r", "m", "i", "n", "i", "s", "t", "i", "c">>
TxRaw           == <<"r", "a", "w">>

\* json.dumps(x, ensure_ascii=False) of a value: whole numbers, texts,
\* true, false, null, lists and mappings
RECURSIVE JsonDumpsText(_)
JsonDumpsText(x) ==
    CASE x.t = "null" -> <<"n", "u", "l", "l">>
      [] x.t = "bool" -> IF x.v THEN TxTrue ELSE TxFalse
      [] x.t = "num"  -> DecText(x.v \div 100)
      [] x.t = "str"  -> JsonDumpStr(x.v)
      [] x.t = "list" ->
            <<"[">> \o Joined([i \in 1..Len(x.v) |-> JsonDumpsText(x.v[i])], <<",", " ">>)
                \o <<"]">>
      [] x.t = "dict" ->
            <<"{">> \o Joined([i \in 1..Cardinality(DOMAIN x.v) |->
                                 JsonDumpStr(ItemsOf(x.v)[i].k) \o <<":", " ">>
                                     \o JsonDumpsText(ItemsOf(x.v)[i].v)],
                              <<",", " ">>) \o <<"}">>

\* Line 204 and the json.dumps of line 206: the text of the context
ContextText(record_det, raw_record) ==
    <<"{">> \o JsonDumpStr(TxDeterministic) \o <<":", " ">> \o JsonDumpsText(Dict(record_det))
        \o <<",", " ">> \o JsonDumpStr(TxRaw) \o <<":", " ">> \o JsonDumpsText(Dict(raw_record))
        \o <<"}">>

\* one pass over s that copies it, writing new for each old it comes upon
RECURSIVE ReplaceScan(_, _, _)
ReplaceScan(s, old, new) ==
    IF s = <<>> THEN <<>>
    ELSE IF StartsWith(s, old) THEN new \o ReplaceScan(SubSeq(s, Len(old) + 1, Len(s)), old, new)
    ELSE <<Head(s)>> \o ReplaceScan(Tail(s), old, new)

\* a replace that goes over its own result again
ReplaceText_Rescan(s, old, new) == ReplaceScan(ReplaceScan(s, old, new), old, new)

\* str.replace(old, new): the occurrences of old in s, left to right, none
\* of them overlapping another; what was written is not read again
ReplaceText(s, old, new) == ReplaceScan(s, old, new)

\* build_prompt, lines 201-209, as text
build_prompt_text(record_det, raw_record) ==
    ReplaceText(InstructionText, MarkerText, ContextText(record_det, raw_record))

\* fields a record may hold: a text, a text that needs escaping, the text
\* of the marker, null
PromptFields ==
    {EmptyMap} \cup
    {(k :> v) : k \in {K("title"), K("name")},
                v \in {Str(<<"t", "e", "a">>), Str(<<"5", Quote>>), Str(MarkerText), Null}}

InitPrompt ==
    /\ bp_det \in PromptFields
    /\ bp_raw \in PromptFields
    /\ bp_out = NotCalled
    /\ LineIdle
    /\ DownloadIdle
    /\ MainIdle
    /\ xrec = EmptyMap
    /\ xout = NotCalled
    /\ ContentIdle
    /\ LookupIdle
    /\ EmitIdle
    /\ NormalizeIdle
    /\ SinkIdle
    /\ OrchIdle
    /\ BatchIdle

\* the call build_prompt(record_det, raw_record)
BuildPrompt ==
    /\ bp_out = NotCalled
    /\ bp_out' = build_prompt_text(bp_det, bp_raw)
    /\ UNCHANGED <<bp_det, bp_raw, lvars, dvars, mvars, xrec, xout, cvars, hvars, evars,
                   nvars, svars, ovars, bvars>>

NextPrompt == BuildPrompt

SpecPrompt == InitPrompt /\ [][NextPrompt]_vars

-----------------------------------------------------------------------------
(* main and _call_scraper, main.py lines 60-107 *)

MaxActors == 3    \* pieces of the --actor argument

\* pieces the argument may hold between its commas: a scraper of
\* src/scripts, one written with blanks around it, blanks alone, a name
\* that is no module of src/scripts, and a module of src/scripts that has
\* no run()
TxAmazon       == <<"a", "m", "a", "z", "o", "n">>
TxEtsyPadded   == <<" ", "e", "t", "s", "y", " ">>
TxSpaces       == <<" ", " ">>
TxNoSuch       == <<"n", "o", "s", "u", "c", "h">>
TxProcessBatch == <<"p", "r", "o", "c", "e", "s", "s", "_", "b", "a", "t", "c", "h">>

ActorPieces == {TxAmazon, TxEtsyPadded, TxSpaces, TxNoSuch, TxProcessBatch}

\* Line 100: [a.strip() for a in args.actor.split(",") if a.strip()]
ActorsOf(pieces) ==
    SelectSeq([i \in 1..Len(pieces) |-> Strip(pieces[i])], LAMBDA a : a # <<>>)

\* _call_scraper, lines 60-94: what may come of it for an actor.  A module
\* that is not found and a module without run() are logged with
\* extra={"module": ...} (lines 69 and 73): logging refuses to overwrite
\* the record's own attribute of that name and raises KeyError in place of
\* the error that was about to be raised.  For a scraper, the import may
\* raise, run() may raise, or run() returns.
ScraperOutcomes(actor_key) ==
    IF actor_key = TxNoSuch
    THEN {[imported |-> FALSE, ran |-> FALSE, error |-> "KeyError"]}
    ELSE IF actor_key = TxProcessBatch
    THEN {[imported |-> TRUE, ran |-> FALSE, error |-> "KeyError"]}
    ELSE {[imported |-> FALSE, ran |-> FALSE, error |-> "ImportError"],
          [imported |-> TRUE, ran |-> TRUE, error |-> "Exception"],
          [imported |-> TRUE, ran |-> TRUE, error |-> "none"]}

\* a loop that lets the exception of an actor out
AfterAttempt_Propagates(outcome) == IF outcome.error = "none" THEN "loop" ELSE "raised"

\* Lines 103-107: an exception of _call_scraper is logged and the loop goes
\* on
AfterAttempt(outcome) == "loop"

InitMain ==
    /\ m_arg \in SeqsUpTo(ActorPieces, MaxActors) \ {<<>>}
    /\ m_actors = <<>>
    /\ m_i = 0
    /\ m_pc = "start"
    /\ m_log = <<>>
    /\ LineIdle
    /\ DownloadIdle
    /\ PromptIdle
    /\ xrec = EmptyMap
    /\ xout = NotCalled
    /\ ContentIdle
    /\ LookupIdle
    /\ EmitIdle
    /\ NormalizeIdle
    /\ SinkIdle
    /\ OrchIdle
    /\ BatchIdle

\* Lines 98-100: the categories are read, which raises when their file is
\* missing (line 27), and the actors are listed
ReadArgs ==
    /\ m_pc = "start"
    /\ \E found \in BOOLEAN :
          IF found
          THEN /\ m_actors' = ActorsOf(m_arg)
               /\ m_i' = 1
               /\ m_pc' = "loop"
          ELSE /\ m_pc' = "raised"
               /\ UNCHANGED <<m_actors, m_i>>
    /\ UNCHANGED <<m_arg, m_log, lvars, dvars, pvars, xrec, xout, cvars, hvars, evars,
                   nvars, svars, ovars, bvars>>

\* One pass of the loop of lines 102-107
AttemptActor ==
    /\ m_pc = "loop"
    /\ m_i <= Len(m_actors)
    /\ \E outcome \in ScraperOutcomes(m_actors[m_i]) :
          /\ m_log' = Append(m_log, [actor    |-> m_actors[m_i],
                                     imported |-> outcome.imported,
                                     ran      |-> outcome.ran,
                                     error    |-> outcome.error])
          /\ m_pc' = AfterAttempt(outcome)
    /\ m_i' = m_i + 1
    /\ UNCHANGED <<m_arg, m_actors, lvars, dvars, pvars, xrec, xout, cvars, hvars, evars,
                   nvars, svars, ovars, bvars>>

\* the loop of line 102 has no actor left
MainReturns ==
    /\ m_pc = "loop"
    /\ m_i > Len(m_actors)
    /\ m_pc' = "done"
    /\ UNCHANGED <<m_arg, m_actors, m_i, m_log, lvars, dvars, pvars, xrec, xout, cvars,
                   hvars, evars, nvars, svars, ovars, bvars>>

NextMain == ReadArgs \/ AttemptActor \/ MainReturns

SpecMain == InitMain /\ [][NextMain]_vars

-----------------------------------------------------------------------------
(* Claims *)

\* the data rows a file holds that this run wrote
RECURSIVE NewRows(_)
NewRows(lines) ==
    IF lines = <<>> THEN 0
    ELSE (IF Head(lines).kind = "row" /\ Head(lines).by # "earlier" THEN 1 ELSE 0)
         + NewRows(Tail(lines))

\* C1: when a run of normalize_records ends, the output CSV has received
\* exactly as many data rows as records were loaded.
C1_RowsEqualRecords ==
    npc = "exited" => NewRows(csv.lines) = Len(all_records)

\* C9: for every raw record that is a mapping, extract_deterministic_fields
\* returns a mapping that holds all fourteen keys, an unresolved field with
\* the value null and never absent.
C9_AllKeysPresent ==
    xout # NotCalled => DetKeys \subseteq DOMAIN xout.v

\* C10: the raw record normalize_records hands to extraction, prompt
\* building and batch-request emission has exactly the keys and values it
\* was loaded with.
C10_RawAsLoaded ==
    /\ Len(loaded) = Len(all_records)
    /\ \A i \in 1..Len(all_records) : all_records[i].raw = loaded[i]

\* the data rows of the file written for record i by this run
RowsFor(i) ==
    {k \in 1..Len(csv.lines) :
        /\ csv.lines[k].kind = "row"
        /\ csv.lines[k].by # "earlier"
        /\ csv.lines[k].src = i}

\* the value that identifies a record: its deterministic url
IdentOf(i) == Get(all_records[i].det, K("url"))

\* C4: once the write loop has handled a record whose worker returned no
\* row, the sink holds exactly one row for that record, and every column of
\* it is null except that url holds the record's identifying value.
C4_PlaceholderWritten ==
    \A i \in consumed :
        fut[i].result = Null =>
            /\ Cardinality(RowsFor(i)) = 1
            /\ \A k \in RowsFor(i) : \A c \in Cols(header) :
                  csv.lines[k].cells[c] = IF c = K("url") THEN IdentOf(i) ELSE Null

\* C5: after a writerow of the write loop has raised, the run has handled
\* no further record and does not complete.
C5_WriteFailureFatal ==
    write_failures # <<>> =>
        /\ processed = write_failures[1]
        /\ opc # "complete"

C2_RowKeysAreHeader ==
    \A k \in 1..Len(csv.lines) :
        (csv.lines[k].kind = "row" /\ csv.lines[k].by = "batch") =>
            DOMAIN csv.lines[k].cells = Cols(header)

\* a row mapped from a parsed object and a placeholder row are in the file
C2_Witness ==
    /\ blines = <<LnMapped, LnGarbled>>
    /\ written = 2
    /\ Len(csv.lines) = 3

\* the lines read so far that are not blank and parse as JSON
RECURSIVE JsonLines(_)
JsonLines(ls) ==
    IF ls = <<>> THEN 0
    ELSE (IF Decoded[Head(ls)].kind = "json" THEN 1 ELSE 0) + JsonLines(Tail(ls))

\* C3: process_batch_jsonl_to_csv has written one data row for each line
\* read so far that is not blank and parses as JSON, and no line makes it
\* raise.
C3_OneRowPerJsonLine ==
    /\ bpc = "raised" => blines = <<>>
    /\ bpc \in {"loop", "done"} => NewRows(csv.lines) = JsonLines(blines)

\* C8: a step of a writer on a file that exists only adds data rows after
\* the lines the file has, and a step that creates the file leaves it with
\* the header and nothing else.
C8_AppendNoSecondHeader ==
    [][/\ csv.exists =>
             /\ Len(csv'.lines) >= Len(csv.lines)
             /\ SubSeq(csv'.lines, 1, Len(csv.lines)) = csv.lines
             /\ \A k \in (Len(csv.lines) + 1)..Len(csv'.lines) :
                   csv'.lines[k].kind = "row"
       /\ (~csv.exists /\ csv'.exists) =>
             /\ Len(csv'.lines) = 1
             /\ csv'.lines[1].kind = "header"]_vars

\* what C11 gives for each sample of the combined price string
C11_Expected(txt) ==
    CASE txt = TxUsPrice -> [price |-> Num(2495), currency |-> Str(<<"U", "S", "D">>)]
      [] txt = TxEuPrice -> [price |-> Num(1200), currency |-> Str(<<"E", "U", "R">>)]
      [] txt = TxComma   -> [price |-> Num(129950), currency |-> Str(<<"G", "B", "P">>)]
      [] txt = TxBoth    -> [price |-> Num(500), currency |-> Str(<<"C", "A", "D">>)]
      [] txt = TxFree    -> [price |-> Null, currency |-> Null]

\* the extractor was applied to a record that has no price and a combined
\* price string
C11_Case ==
    /\ xout # NotCalled
    /\ Get(xrec, K("price")) = Null
    /\ Get(xrec, K("priceWithCurrency")).t = "str"

\* the part of C11 about the values: a price the result holds, and the
\* currency, are the ones the claim gives
C11_ValuesAsGiven ==
    C11_Case =>
        LET e == C11_Expected(xrec[K("priceWithCurrency")].v)
        IN  /\ Get(xout.v, K("price")) = e.price
            /\ xout.v[K("currency")] = e.currency

\* C11: for a record with no price field, the result's price and currency
\* are the ones parsed from the combined price string; with no numeric
\* substring in it the result holds a price, and it is null.
C11_PriceFromCombinedText ==
    /\ C11_ValuesAsGiven
    /\ C11_Case => K("price") \in DOMAIN xout.v

\* the text handed to _extract_json_from_content is body b in wrapping w,
\* and the call has returned
C12_Sample(w, b) == ctext = w.before \o b.text \o w.after /\ cres # NotCalled

\* the stripped text begins and ends with a fence
C12_Fenced(txt) == StartsWith(Strip(txt), Fence) /\ EndsWith(Strip(txt), Fence)

\* what the brace rule and the parse give for a text without its first and
\* last line
C12_WithoutOuterLines(txt) ==
    ParseCandidate(BraceCandidate(Strip(JoinLines(Inner(SplitLines(Strip(txt)))))))

\* the result is a mapping or none
C12_MappingOrNone == cres # NotCalled => (cres = Null \/ cres.t = "dict")

\* empty input gives none
C12_EmptyGivesNone == (ctext = <<>> /\ cres # NotCalled) => cres = Null

\* text around an object, or a list of one, is ignored: in the wrappings
\* named, a body that holds a mapping gives that mapping
C12_AroundIgnored(names) ==
    \A w \in ContentWraps, b \in ContentBodies :
        (C12_Sample(w, b) /\ w.name \in names /\ b.holds # Null) => cres = b.holds

\* a candidate that parses to a non-empty list whose first element is a
\* mapping gives that element
C12_ListGivesFirst ==
    cres # NotCalled =>
        \A r \in {JsonLoads(BraceCandidate(UnfenceBoth(Strip(ctext))))} :
            (r.ok /\ r.val.t = "list" /\ Truthy(r.val) /\ r.val.v[1].t = "dict")
                => cres = r.val.v[1]

\* a text with no braces that is not JSON gives none
C12_GarbleGivesNone ==
    (/\ cres # NotCalled
     /\ \A i \in 1..Len(ctext) : ctext[i] \notin {"{", "}"}
     /\ ~JsonLoads(Strip(ctext)).ok) => cres = Null

\* every sample gives what its body holds, whatever stands around it
C12_Table ==
    \A w \in ContentWraps, b \in ContentBodies : C12_Sample(w, b) => cres = b.holds

C13_Place(k, column) ==
    IF column = K("product ID")
    THEN CASE k = TkExact -> 1 [] k = TkLower -> 2
           [] k = TkUnderscore -> 3 [] k = TkUnderscoreLower -> 4
           [] k = TkJoined -> 5 [] k = TkJoinedLower -> 6
           [] k \in {TkCapital, TkPadded} -> 7
           [] OTHER -> 0
    ELSE IF column = TkUnderscore
    THEN CASE k = TkUnderscore -> 1 [] k = TkUnderscoreLower -> 2 [] OTHER -> 0
    ELSE CASE k = TkNameExact -> 1 [] k = TkName -> 7 [] OTHER -> 0

\* item i of the mapping is the one C13 resolves the column to: no item
\* has an earlier place, nor the same place earlier in the iteration order
C13_Resolves(i) ==
    /\ C13_Place(hparsed[i].k, hkey) > 0
    /\ \A j \in DOMAIN hparsed :
          \/ C13_Place(hparsed[j].k, hkey) = 0
          \/ C13_Place(hparsed[j].k, hkey) > C13_Place(hparsed[i].k, hkey)
          \/ (C13_Place(hparsed[j].k, hkey) = C13_Place(hparsed[i].k, hkey) /\ j >= i)

\* C13: _value_for_header returns the value of the first key that matches,
\* trying the exact column name, the lowercased name, the name with spaces
\* as underscores and that lowercased, the name without spaces and that
\* lowercased, and last the first key in iteration order whose trimmed
\* lowercase form is the lowercased name; with no match the result is null,
\* and the value of a key that matches no column is never the result.
C13_ResolvedInOrder ==
    hres # NotCalled =>
        /\ \A i \in DOMAIN hparsed : C13_Resolves(i) => hres = hparsed[i].v
        /\ (\A i \in DOMAIN hparsed : ~C13_Resolves(i)) => hres = Null
        /\ \A i \in DOMAIN hparsed :
              (\A column \in {K("product ID"), K("name"), TkUnderscore} : C13_Place(hparsed[i].k, column) = 0)
                  => hres # hparsed[i].v

\* two keys match the column only loosely, and the first of them in
\* iteration order gave the value
C13_Witness ==
    /\ hkey = K("product ID")
    /\ hparsed = <<[k |-> TkPadded, v |-> Str(TkPadded)], [k |-> TkCapital, v |-> Str(TkCapital)]>>
    /\ hres = Str(TkPadded)

\* the rows worker_job has built fall back on the deterministic fields: a
\* column the parsed mapping leaves null holds the record's deterministic
\* field when that field has a value
C14_WorkerFallsBack ==
    \A i \in DOMAIN fut :
        fut[i].result.t = "dict" =>
            \A col \in Cols(header) \cap DOMAIN all_records[i].det :
                (/\ Get(parse_and_map_output(TxObject).v, col) = Null
                 /\ all_records[i].det[col] # Null)
                    => fut[i].result.v[col] = all_records[i].det[col]

\* the same of the rows process_batch_jsonl_to_csv has written for a line
\* that holds a mapping
C14_BatchFallsBack ==
    \A k \in 1..Len(csv.lines) :
        (/\ csv.lines[k].kind = "row"
         /\ csv.lines[k].by = "batch"
         /\ blines[csv.lines[k].src] = LnPartial) =>
            \A col \in Cols(header) \cap DOMAIN BatchSourceFields :
                (/\ value_for_header((K("name") :> Str(<<"t", "e", "a">>))
                                         @@ (K("price") :> Null), col) = Null
                 /\ BatchSourceFields[col] # Null)
                    => csv.lines[k].cells[col] = BatchSourceFields[col]

\* C14: in every row built from a parsed mapping, a column that is still
\* null after key resolution takes the value of the corresponding
\* deterministic field of the source record when that field has one, in the
\* rows built by worker_job and in those built by
\* process_batch_jsonl_to_csv.
C14_DeterministicFallback == C14_WorkerFallsBack /\ C14_BatchFallsBack

\* the rows process_batch_jsonl_to_csv has handed to the writer
BatchRows ==
    {k \in 1..Len(csv.lines) : csv.lines[k].kind = "row" /\ csv.lines[k].by = "batch"}

\* what C15 gives for the row of the line LnMapped, whose mapping is
\* {"name": "tea", "Price": [1], "url": true}
C15_Expected(col) ==
    CASE col = K("name")  -> Str(<<"t", "e", "a">>)
      [] col = K("price") -> JsonDumps(List(<<Num(100)>>))
      [] col = K("url")   -> Str(TxTrue)
      [] OTHER            -> Str(<<>>)

\* C15: in every row handed to the CSV writer a list or mapping is replaced
\* by its JSON text, a boolean by "true" or "false", null by the empty
\* string, and any other value is passed through; no cell is a list, a
\* mapping, a boolean or null.
C15_CellsCoerced ==
    \A k \in BatchRows :
        /\ \A col \in Cols(header) :
              csv.lines[k].cells[col].t \notin {"list", "dict", "bool", "null"}
        /\ blines[csv.lines[k].src] = LnMapped =>
              \A col \in Cols(header) : csv.lines[k].cells[col] = C15_Expected(col)

\* the row of LnMapped was written under the header that has all of its
\* columns: a list, a boolean, a text and a null were coerced
C15_Witness ==
    \E k \in BatchRows :
        /\ blines[csv.lines[k].src] = LnMapped
        /\ header = HeaderA
        /\ csv.lines[k].cells[K("url")] = Str(TxTrue)

\* the sample lines that parse as JSON and hold no mapping for the row
C16_NoMapping == {LnGarbled, LnEmptyContent, LnArray, LnTextResponse}

\* the correlation id C16 gives for each of them: the custom_id, failing
\* that the response's request_id, and none when the line has neither
C16_Id(l) ==
    CASE l = LnGarbled      -> Str(<<"t", "1">>)
      [] l = LnEmptyContent -> Str(<<"r", "1">>)
      [] OTHER              -> Str(<<>>)

\* the rows written for line i of the results file
C16_RowsOf(i) == {k \in BatchRows : csv.lines[k].src = i}

\* a row written for a line that holds no mapping is the placeholder: every
\* column empty, but for "product ID" holding the correlation id
C16_PlaceholderCells ==
    \A i \in 1..Len(blines) :
        blines[i] \in C16_NoMapping =>
            \A k \in C16_RowsOf(i) : \A col \in Cols(header) :
                csv.lines[k].cells[col] =
                    IF col = K("product ID") THEN C16_Id(blines[i]) ELSE Str(<<>>)

\* C16: when no mapping is recovered from a batch result line,
\* process_batch_jsonl_to_csv writes a placeholder row in which every column
\* is empty, except that "product ID", when the header has it, holds the
\* line's custom_id or, failing that, the response's request_id.
C16_PlaceholderForNoMapping ==
    /\ C16_PlaceholderCells
    /\ \A i \in 1..Len(blines) :
          blines[i] \in C16_NoMapping => Cardinality(C16_RowsOf(i)) = 1

\* "task-i" for a position i below ten
C17_TaskId(i) ==
    <<"t", "a", "s", "k", "-">> \o <<<<"0", "1", "2", "3", "4", "5", "6", "7", "8", "9">>[i + 1]>>

C18_RerunSameLines ==
    emit_runs >= 2 =>
        /\ jsonl.lines = emit_first
        /\ Len(jsonl.lines) = Len(all_records)
        /\ \A i \in 1..Len(jsonl.lines) : jsonl.lines[i].custom_id = emit_first[i].custom_id

\* the second run on two records has returned, the first having found a
\* file an earlier run left
C18_Witness ==
    /\ emit_runs = 2
    /\ emit_before = StaleJsonl
    /\ Len(all_records) = 2
    /\ Len(emit_first) = 2
    /\ jsonl.lines = emit_first

\* a line of a newline-delimited file parses
C19_Parses(x) == x # BadLine

\* what C19 gives for safe_load_json_file on a file that can be read
C19_Loaded(f) ==
    CASE f.kind = "array"  -> f.items
      [] f.kind = "object" -> f.items
      [] f.kind = "lines"  -> SelectSeq(f.items, C19_Parses)
      [] OTHER             -> <<>>

\* the records a file gives to the run: those it holds before the first
\* item that cannot be processed, none when it cannot be read
C19_Given(f) ==
    IF f.kind = "unreadable" THEN <<>>
    ELSE [i \in 1..Cardinality({n \in 1..Len(C19_Loaded(f)) :
                                  \A m \in 1..n : C19_Loaded(f)[m].t = "dict"})
             |-> C19_Loaded(f)[i].v]

\* the records of the files fs, one file after the other
RECURSIVE C19_Collected(_)
C19_Collected(fs) ==
    IF fs = <<>> THEN <<>> ELSE C19_Given(Head(fs)) \o C19_Collected(Tail(fs))

\* C19: loading never aborts the run: safe_load_json_file returns every
\* element of an array file, a single object as a list of one, and of a
\* newline-delimited file every line that parses, skipping the others; and
\* the loop of normalize_records goes through every file, a file that fails
\* to load or to process not keeping the records of the other files from
\* being collected.
C19_LoadingNeverAborts ==
    /\ Len(files) = fi
    /\ \A i \in 1..Len(files) :
          files[i].kind # "unreadable" =>
              /\ ~safe_load_json_file(files[i]).raised
              /\ safe_load_json_file(files[i]).items = C19_Loaded(files[i])
    /\ loaded = C19_Collected(files)
    /\ Len(all_records) = Len(loaded)

\* after a file that could not be read, the two lines that parse of a file
\* with a bad line between them were collected
C19_Witness ==
    /\ files = <<[kind |-> "unreadable", items |-> <<>>],
                 [kind |-> "lines", items |-> <<Dict(RecA), BadLine, Dict(RecB)>>]>>
    /\ loaded = <<RecA, RecB>>
    /\ Len(all_records) = 2

\* worker_job has returned for record i: with a row (parsed) or with None
\* (placeholder)
C20_Terminal(i) == i \in DOMAIN fut /\ fut[i].st = "done"

\* C20: every record submitted to the orchestrator eventually reaches one
\* terminal state, parsed or placeholder, and never leaves it, also when a
\* model call never answers.
C20_EveryRecordTerminal ==
    \A i \in 1..MaxRecords :
        /\ (i \in DOMAIN fut) ~> C20_Terminal(i)
        /\ [](C20_Terminal(i) => []C20_Terminal(i))

\* the row C21 gives for a record whose worker got the object
\* {"name": "tea", "price": null}: the name from the object, the url and the
\* price from the record itself
C21_RowOf(raw) ==
    [col \in Cols(HeaderA) |->
        CASE col = K("name") -> Str(<<"t", "e", "a">>)
          [] col = K("url") ->
                IF K("url") \in DOMAIN raw \/ K("link") \in DOMAIN raw
                THEN Str(TxUrl) ELSE Null
          [] col = K("price") ->
                IF K("price") \in DOMAIN raw THEN raw[K("price")]
                ELSE IF K("priceWithCurrency") \in DOMAIN raw THEN Num(2495)
                ELSE Null
          [] OTHER -> Null]

C22_DelaysBeforeAttempt(i) ==
    SubSeq(fut[i].delays, 1,
           IF Len(fut[i].delays) < Attempts(max_retries)
           THEN Len(fut[i].delays) ELSE Attempts(max_retries) - 1)

\* C22: the delay worker_job waits before the next attempt for the same
\* record strictly increases with the attempt number, after an exception of
\* the model call and after an unparsable response alike.
C22_DelayIncreases ==
    \A i \in DOMAIN fut :
        \A a, b \in 1..Len(C22_DelaysBeforeAttempt(i)) :
            a < b => C22_DelaysBeforeAttempt(i)[a] < C22_DelaysBeforeAttempt(i)[b]

\* C22, exceptions only: where every failed attempt raised, the delays are
\* 1, 3, 5, ...
C22_ExceptionDelayIncreases ==
    \A i \in DOMAIN fut :
        (\A a \in 1..Len(fut[i].delays) : fut[i].outcomes[a] = "exception") =>
            \A a \in 1..Len(fut[i].delays) : fut[i].delays[a] = 2 * a - 1

\* C23: the placeholder path, which fills the identifier column from the
\* correlation id, is taken only when no mapping was recovered from the
\* line: the row of a line whose content is the empty mapping went through
\* key resolution and has every column empty.
C23_EmptyMappingResolved ==
    \A k \in BatchRows :
        blines[csv.lines[k].src] = LnEmptyContent =>
            \A c \in DOMAIN csv.lines[k].cells : csv.lines[k].cells[c] = Str(<<>>)

\* C23, mappings that hold a key: their rows leave the identifier column
\* empty although the line carries a correlation id
C23_FilledMappingResolved ==
    \A k \in BatchRows :
        (blines[csv.lines[k].src] \in {LnMapped, LnPartial}
            /\ K("product ID") \in DOMAIN csv.lines[k].cells) =>
                csv.lines[k].cells[K("product ID")] = Str(<<>>)

\* C24: when the message content of a result line is already a decoded
\* mapping, that mapping is the parsed object and the row mapped from it is
\* written: the line whose content is {"name": "tea"} gives a row whose
\* name is tea and whose other columns are empty.
C24_DecodedMappingWritten ==
    \A n \in 1..Len(blines) :
        blines[n] = LnMappingContent =>
            \E k \in BatchRows :
                /\ csv.lines[k].src = n
                /\ csv.lines[k].cells =
                      [c \in Cols(header) |->
                          IF c = K("name") THEN Str(<<"t", "e", "a">>) ELSE Str(<<>>)]

\* every value the line holds under a key named content, at any depth
RECURSIVE C25_ContentValues(_)
C25_ContentValues(d) ==
    IF d.t = "dict"
    THEN UNION {(IF k = K("content") THEN {d.v[k]} ELSE {})
                    \cup C25_ContentValues(d.v[k]) : k \in DOMAIN d.v}
    ELSE IF d.t = "list"
    THEN UNION {C25_ContentValues(d.v[i]) : i \in 1..Len(d.v)}
    ELSE {}

\* those of them that are a string containing '{', ']' or '"'
C25_Qualifying ==
    {v \in C25_ContentValues(lobj) :
        v.t = "str" /\ \E i \in 1..Len(v.v) : v.v[i] \in {"{", "]", "\""}}

\* the line's first choice has no content and no text
C25_NothingOnChoicesPath ==
    K("response") \in DOMAIN lobj.v =>
        \A first \in {lobj.v[K("response")].v[K("body")].v[K("choices")].v[1]} :
            /\ K("text") \notin DOMAIN first.v
            /\ first.v[K("message")].v[K("content")] = Str(<<>>)

\* C25: when the standard choices path gives no usable content, what
\* _extract_content_from_line returns is a value stored under a key named
\* content that is a string containing '{', ']' or '"'; a content value
\* that is not such a string is never returned, and with no such value the
\* result is none.
C25_FallbackReturnsContentText ==
    (lres # NotCalled /\ C25_NothingOnChoicesPath) =>
        /\ lres = Null \/ lres \in C25_Qualifying
        /\ C25_Qualifying = {} => lres = Null

\* C25 for lines that hold no content key at their top level
C25_DeepSearchReturnsContentText ==
    (lres # NotCalled /\ C25_NothingOnChoicesPath /\ K("content") \notin DOMAIN lobj.v) =>
        /\ lres = Null \/ lres \in C25_Qualifying
        /\ C25_Qualifying = {} => lres = Null
        /\ C25_Qualifying # {} => lres # Null

\* C26: the space/underscore variant works in both directions: the column
\* "product ID" resolves to the key "product_ID" of a mapping that holds
\* no other key, and the column "product_ID" resolves to the key
\* "product ID" of such a mapping.
C26_BothDirections ==
    (hres # NotCalled /\ Len(hparsed) = 1) =>
        /\ (hkey = TkExact /\ hparsed[1].k = TkUnderscore) => hres = hparsed[1].v
        /\ (hkey = TkUnderscore /\ hparsed[1].k = TkExact) => hres = hparsed[1].v

\* C26, from spaces to underscores only
C26_SpacesToUnderscores ==
    (hres # NotCalled /\ Len(hparsed) = 1) =>
        ((hkey = TkExact /\ hparsed[1].k \in {TkUnderscore, TkUnderscoreLower})
            => hres = hparsed[1].v)

\* what C27 gives for each sample of the price field: the number it is or
\* spells, null for what is no number
C27_Price(price) ==
    CASE price = Num(500)       -> Num(500)
      [] price = Str(TxDecimal) -> Num(1250)
      [] price = Str(TxFree)    -> Null
      [] price = List(<<>>)     -> Null

\* what C27 gives for the currency: the record's currency field, its
\* priceCurrency field when that one is missing or empty, else null
C27_Currency(record) ==
    IF K("currency") \in DOMAIN record /\ record[K("currency")] # Str(<<>>)
    THEN record[K("currency")]
    ELSE IF K("priceCurrency") \in DOMAIN record THEN record[K("priceCurrency")]
    ELSE Null

C28_RoundTrip ==
    dl_loaded # NotCalled => dl_loaded = [raised |-> FALSE, items |-> dl_items]

\* C28 for a dataset that holds no item
C28_EmptyRoundTrip ==
    (dl_loaded # NotCalled /\ dl_items = <<>>) =>
        dl_loaded = [raised |-> FALSE, items |-> <<>>]

\* the places of a text where the marker stands
C29_MarkerPlaces(text) ==
    {i \in 1..Len(text) : StartsWith(SubSeq(text, i, Len(text)), MarkerText)}

\* the arguments' fields whose value is the text of the marker
C29_MarkersInData ==
    Cardinality({k \in DOMAIN bp_det : bp_det[k] = Str(MarkerText)})
        + Cardinality({k \in DOMAIN bp_raw : bp_raw[k] = Str(MarkerText)})

\* C29: build_prompt replaces the one marker of the template, once, with
\* the JSON text of {deterministic, raw}: the prompt is the template's text
\* before the marker, the JSON text, and the template's text after the
\* marker; the JSON text is not scanned again, so the marker strings the
\* prompt holds are those of the record's own data.
C29_MarkerReplacedOnce ==
    bp_out # NotCalled =>
        /\ bp_out = <<"C", "O", "N", "T", "E", "X", "T", ":", "\n", "\n">>
                        \o ContextText(bp_det, bp_raw) \o
                    <<"\n", "\n", "E", "X", "A", "M", "P", "L", "E", "S">>
        /\ Cardinality(C29_MarkerPlaces(bp_out)) = C29_MarkersInData

\* the raw record's title is the text of the marker, and the prompt holds
\* it once, as data
C29_Witness ==
    /\ bp_out # NotCalled
    /\ bp_raw = (K("title") :> Str(MarkerText))
    /\ bp_det = EmptyMap
    /\ Cardinality(C29_MarkerPlaces(bp_out)) = 1

\* the actor a piece of the argument names; blanks name none
C30_NameOf(piece) ==
    CASE piece = TxAmazon       -> <<<<"a", "m", "a", "z", "o", "n">>>>
      [] piece = TxEtsyPadded   -> <<<<"e", "t", "s", "y">>>>
      [] piece = TxNoSuch       -> <<<<"n", "o", "s", "u", "c", "h">>>>
      [] piece = TxProcessBatch -> <<TxProcessBatch>>
      [] piece = TxSpaces       -> <<>>

\* the actors the command line names, in its order
RECURSIVE C30_Named(_)
C30_Named(pieces) ==
    IF pieces = <<>> THEN <<>>
    ELSE C30_NameOf(Head(pieces)) \o C30_Named(Tail(pieces))

\* C30: main attempts every actor named on the command line exactly once,
\* in the order given: the attempts made so far are the first of the actors
\* named, main returns only after the last of them, and once the loop has
\* begun nothing an attempt raises ends it.
C30_EveryActorAttempted ==
    /\ [n \in 1..Len(m_log) |-> m_log[n].actor] = SubSeq(C30_Named(m_arg), 1, Len(m_log))
    /\ m_pc = "done" => Len(m_log) = Len(C30_Named(m_arg))
    /\ m_pc = "raised" => m_log = <<>>
    /\ m_pc \in {"start", "loop", "done", "raised"}

\* three actors were named; the first is no module and the second raised
\* while running, and the third was attempted and returned
C30_Witness ==
    /\ m_pc = "done"
    /\ Len(m_log) = 3
    /\ m_log[1].actor = TxNoSuch /\ m_log[1].error = "KeyError"
    /\ m_log[2].ran /\ m_log[2].error = "Exception"
    /\ m_log[3].ran /\ m_log[3].error = "none"

=============================================================================
